---- MODULE Spec2Model ----
(***************************************************************************)
(* A model of knime.py: the table codec                                    *)
(* (convert_dataframe_to_knime_friendly_dict and the DataFrame             *)
(* reconstruction of execute), the local transport                         *)
(* (run_workflow_using_multiple_service_tables), and the LocalWorkflow /   *)
(* RemoteWorkflow handles.                                                 *)
(*                                                                         *)
(* Five specifications:                                                    *)
(*   Spec        one workflow handle, its caller and the engine            *)
(*   SpecCodec   the codec applied to bounded tabular values               *)
(*   SpecMapper  the type mapper applied to bounded dtype descriptors      *)
(*   SpecLocator the node locator applied to bounded workflow directories  *)
(*   SpecStaging two local execute() calls and their staging files         *)
(***************************************************************************)
EXTENDS Integers, Sequences, FiniteSets, TLC

VARIABLES
    cls,                        \* class chosen by Workflow.__new__
    wfdef,                      \* the workflow definition (disk or server)
    data_table_inputs,          \* self._data_table_inputs
    data_table_outputs,         \* self._data_table_outputs
    service_table_input_nodes,  \* self._service_table_input_nodes
    service_table_output_nodes, \* self._service_table_output_nodes
    input_ids,                  \* self._input_ids
    output_ids,                 \* self._output_ids
    last_status_code,           \* self._last_status_code
    call,                       \* the execute() call blocked on the engine
    last,                       \* history: what the last handle operation did
    codec                       \* the codec's position, input and results

handleVars == <<cls, wfdef, data_table_inputs, data_table_outputs,
                service_table_input_nodes, service_table_output_nodes,
                input_ids, output_ids, last_status_code, call, last>>

vars == <<cls, wfdef, data_table_inputs, data_table_outputs,
          service_table_input_nodes, service_table_output_nodes,
          input_ids, output_ids, last_status_code, call, last, codec>>

(***************************************************************************)
(* Bounds                                                                  *)
(***************************************************************************)
MaxCols == 2

MaxRows == 2

MaxInputs == 2

MaxOutputs == 2

\* the number of name fragments a dtype descriptor is made of
MaxTokens == 3

\* the number of lines of a settings.xml
MaxLines == 2

(***************************************************************************)
(* Python values                                                           *)
(* Every Python object is a record, so that any two can be compared.       *)
(***************************************************************************)
None == [kind |-> "None"]

\* an attribute that was never assigned, or a local that is unbound
Unset == [kind |-> "unset"]

PyList(items) == [kind |-> "list", items |-> items]

PyInt(n) == [kind |-> "int", n |-> n]

PyStr(s) == [kind |-> "str", s |-> s]

RECURSIVE SeqsUpTo(_, _)
\* every sequence over S of length at most n
SeqsUpTo(S, n) ==
    IF n = 0 THEN {<<>>}
    ELSE LET shorter == SeqsUpTo(S, n - 1)
         IN shorter \cup {Append(s, e) : s \in {t \in shorter : Len(t) = n - 1}, e \in S}

\* `sub in key` on Python strings
Contains(key, sub) ==
    \E i \in 1..(Len(key) - Len(sub) + 1) : SubSeq(key, i, i + Len(sub) - 1) = sub

(***************************************************************************)
(* Scalars.  A cell is a tagged Python/JSON scalar; v is its str().        *)
(***************************************************************************)
IntCell(v) == [t |-> "int", v |-> v]

FloatCell(v) == [t |-> "float", v |-> v]

BoolCell(v) == [t |-> "bool", v |-> v]

StrCell(v) == [t |-> "str", v |-> v]

NaN == [t |-> "nan", v |-> "nan"]

NoneCell == [t |-> "none", v |-> "None"]

JsonNull == [t |-> "null", v |-> "null"]

\* pandas isna() of one cell
IsNa(c) == c.t \in {"nan", "none"}

\* the cells a column of the given numpy dtype can hold
CellsOf(dtype) ==
    CASE dtype = "int64" -> {IntCell("1")}
      [] dtype = "int32" -> {IntCell("2")}
      [] dtype = "float64" -> {FloatCell("1.5"), NaN}
      [] dtype = "bool" -> {BoolCell("True")}
      [] OTHER -> {StrCell("a"), NoneCell}

Dtypes == {"int64", "int32", "float64", "bool", "object"}

ColNames == {"a", "b", "c"}

(***************************************************************************)
(* The type mapper                                                         *)
(***************************************************************************)
\* the table with the generic "int" rule ahead of "int64"
map_numpy_to_knime_type_int_first ==
    << <<"float", "double">>,
       <<"int", "int">>,
       <<"int64", "long">>,
       <<"long", "long">>,
       <<"bool", "boolean">> >>

map_numpy_to_knime_type ==
    << <<"float", "double">>,
       <<"int64", "long">>,
       <<"long", "long">>,
       <<"int", "int">>,
       <<"bool", "boolean">> >>

RECURSIVE MapperLoop(_, _)
MapperLoop(key, i) ==
    IF i > Len(map_numpy_to_knime_type) THEN "string"
    ELSE IF Contains(key, map_numpy_to_knime_type[i][1])
         THEN map_numpy_to_knime_type[i][2]
         ELSE MapperLoop(key, i + 1)

pandas_type_mapper(pandas_dtype) == MapperLoop(pandas_dtype, 1)

(***************************************************************************)
(* Tabular values.  A DataFrame has named, typed columns and row-major     *)
(* cells; an encoded table is the dict {table-spec, table-data}, modelled  *)
(* as a function whose domain is the set of keys the dict has.             *)
(***************************************************************************)
DataFrame(columns, dtypes, data) ==
    [kind |-> "DataFrame", columns |-> columns, dtypes |-> dtypes, data |-> data]

\* whether x.dtypes is obtainable (no AttributeError)
HasDtypes(x) == "dtypes" \in DOMAIN x

EncodedTable(spec, data) == ("table-spec" :> spec) @@ ("table-data" :> data)

\* a one-key dict {c: t}, as the sequence of its items
OneKeyDict(c, t) == << <<c, t>> >>

Rows(data) == 1..Len(data)

(***************************************************************************)
(* convert_dataframe_to_knime_friendly_dict                                *)
(***************************************************************************)
ProtoTableSpec(df) ==
    [i \in 1..Len(df.columns) |-> <<df.columns[i], pandas_type_mapper(df.dtypes[i])>>]

\* Series.apply(str) on every column whose KNIME type is "string"
StringifiedCopy(df, proto_table_spec) ==
    [r \in Rows(df.data) |-> [i \in 1..Len(df.data[r]) |->
        IF proto_table_spec[i][2] = "string" THEN StrCell(df.data[r][i].v)
        ELSE df.data[r][i]]]

\* json.loads(df2.to_json(orient="values")): NaN and None become null
ToJsonValues(data) ==
    [r \in Rows(data) |-> [i \in 1..Len(data[r]) |->
        IF IsNa(data[r][i]) THEN JsonNull ELSE data[r][i]]]

\* df2.to_dict(orient="split")["data"]: built from the values array, so a
\* frame of only int and float columns is upcast to float (the docstring's
\* known issue)
ToDictSplitData(data, dtypes) ==
    IF /\ \A i \in 1..Len(dtypes) : Contains(dtypes[i], "int") \/ Contains(dtypes[i], "float")
       /\ \E i \in 1..Len(dtypes) : Contains(dtypes[i], "float")
    THEN [r \in Rows(data) |-> [i \in 1..Len(data[r]) |->
            IF data[r][i].t = "int" THEN FloatCell(data[r][i].v \o ".0")
            ELSE data[r][i]]]
    ELSE data

\* the clean-up of the stringified copy df2
CleanedTableData(df2, dtypes) ==
    IF \E r \in Rows(df2) : \E i \in 1..Len(df2[r]) : IsNa(df2[r][i])   \* df2.isna().any().any()
    THEN ToJsonValues(df2)
    ELSE ToDictSplitData(df2, dtypes)

\* the body of the try block, once proto_table_spec is known
ConvertWithSpec(df, proto_table_spec) ==
    EncodedTable([i \in 1..Len(proto_table_spec) |->      \* [{c: t} for c, t in proto_table_spec]
                    OneKeyDict(proto_table_spec[i][1], proto_table_spec[i][2])],
                 CleanedTableData(StringifiedCopy(df, proto_table_spec), df.dtypes))

\* a converter that gives None for what is not a DataFrame
convert_dataframe_only(df) ==
    IF ~HasDtypes(df) THEN None ELSE ConvertWithSpec(df, ProtoTableSpec(df))

convert_dataframe_to_knime_friendly_dict(df) ==
    IF ~HasDtypes(df) THEN df ELSE ConvertWithSpec(df, ProtoTableSpec(df))

(***************************************************************************)
(* The DataFrame reconstruction of execute()                               *)
(***************************************************************************)
Raised(exc) == [exc |-> exc, val |-> None]

Returned(val) == [exc |-> "none", val |-> val]

RECURSIVE FlattenKeys(_)
\* list(k for d in table_spec for k, v in d.items())
FlattenKeys(table_spec) ==
    IF table_spec = <<>> THEN <<>>
    ELSE [j \in 1..Len(Head(table_spec)) |-> Head(table_spec)[j][1]]
            \o FlattenKeys(Tail(table_spec))

\* the dtype pandas infers for a column of JSON scalars
InferDtype(cells) ==
    LET ts == {cells[r].t : r \in DOMAIN cells}
    IN  IF ts = {} THEN "object"
        ELSE IF ts = {"int"} THEN "int64"
        ELSE IF ts \subseteq {"int", "float", "null"} /\ ts # {"null"} THEN "float64"
        ELSE IF ts = {"bool"} THEN "bool"
        ELSE "object"

\* one JSON scalar as stored in a column of the inferred dtype
StoreCell(c, dtype) ==
    IF dtype = "float64"
    THEN IF c.t = "null" THEN NaN
         ELSE IF c.t = "int" THEN FloatCell(c.v \o ".0") ELSE c
    ELSE IF c.t = "null" THEN NoneCell ELSE c

\* rows shorter than the widest are padded with missing values
PadRows(data, width) ==
    [r \in Rows(data) |->
        [i \in 1..width |-> IF i <= Len(data[r]) THEN data[r][i] ELSE JsonNull]]

InferDtypes(padded, columns) ==
    [i \in 1..Len(columns) |-> InferDtype([r \in Rows(padded) |-> padded[r][i]])]

FrameOfPadded(padded, columns, dtypes) ==
    DataFrame(columns, dtypes,
              [r \in Rows(padded) |->
                [i \in 1..Len(padded[r]) |-> StoreCell(padded[r][i], dtypes[i])]])

FrameOfWidth(data, columns, width, padded) ==
    IF data # <<>> /\ width # Len(columns) THEN Raised("ValueError")
    ELSE Returned(FrameOfPadded(padded, columns, InferDtypes(padded, columns)))

\* the length of the longest row, 0 when there is none
RowWidth(data) ==
    IF data = <<>> THEN 0
    ELSE CHOOSE m \in {Len(data[r]) : r \in Rows(data)} : \A r \in Rows(data) : Len(data[r]) <= m

\* pandas.DataFrame(data, columns=columns) on a list of lists: short rows
\* are padded with missing values; a width other than len(columns) raises
PandasDataFrame(data, columns) ==
    FrameOfWidth(data, columns, RowWidth(data), PadRows(data, RowWidth(data)))

\* df_columns = ...; pandas.DataFrame(output['table-data'], columns=df_columns)
OutputToDataFrame(output) ==
    IF "table-spec" \notin DOMAIN output THEN Raised("KeyError")
    ELSE IF "table-data" \notin DOMAIN output THEN Raised("KeyError")
    ELSE PandasDataFrame(output["table-data"], FlattenKeys(output["table-spec"]))

(***************************************************************************)
(* The workflow definition: a directory with one settings.xml per node     *)
(* directory and the node registry workflow.knime.                         *)
(***************************************************************************)
INPUT_FACTORY == "ContainerTableInputNodeFactory"

OUTPUT_FACTORY == "ContainerTableOutputNodeFactory"

\* a node directory: its name, the lines of its settings.xml, and the
\* parameterName entry of its model config
NodeDir(dirname, lines, parameter) ==
    [dirname |-> dirname, lines |-> lines, parameter |-> parameter]

\* one <config key="node_N"> of the registry as KNIME writes it: id first,
\* then the settings file
NodeConfig(id, dirname) ==
    << [key |-> "id", value |-> ToString(id)],
       [key |-> "node_settings_file", value |-> dirname \o "/settings.xml"],
       [key |-> "node_is_meta", value |-> "false"] >>

\* a node's directory name, such as "Container Input _Table_ (#42)"
NodeDirname(label, id) == label \o " (#" \o ToString(id) \o ")"

\* a workflow with nIn Container Input (Table) and nOut Container Output
\* (Table) nodes.  dirs is the order in which glob("*/settings.xml")
\* enumerates them; the registry lists the nodes in the opposite order.
WorkflowDefinition(exists, nIn, nOut, hasNodesConfig) ==
    LET input(i) == NodeDirname("Container Input _Table_", 1 + i)
        output(j) == NodeDirname("Container Output _Table_", 1 + nIn + j)
        other == NodeDirname("Row Filter", 1)
        dirs == [j \in 1..nOut |-> NodeDir(output(j), <<OUTPUT_FACTORY>>, None)]
                \o << NodeDir(other, <<"RowFilterNodeFactory">>, None) >>
                \o [i \in 1..nIn |-> NodeDir(input(i), <<INPUT_FACTORY>>, PyStr("input"))]
        configs == << NodeConfig(1, other) >>
                   \o [i \in 1..nIn |-> NodeConfig(1 + i, input(i))]
                   \o [j \in 1..nOut |-> NodeConfig(1 + nIn + j, output(j))]
    IN  [exists |-> exists,
         dirs |-> IF exists THEN dirs ELSE <<>>,
         has_nodes_config |-> hasNodesConfig,
         node_configs |-> [k \in 1..Len(configs) |-> configs[Len(configs) + 1 - k]],
         n_outputs |-> IF exists THEN nOut ELSE 0]

\* the workflows a handle of either class can be given: a directory may
\* be missing, or its workflow.knime may lack the nodes config
Definitions(is_url) ==
    IF is_url
    THEN {WorkflowDefinition(TRUE, nIn, nOut, TRUE) :
            nIn \in 0..MaxInputs, nOut \in 0..MaxOutputs}
    ELSE {WorkflowDefinition(TRUE, nIn, nOut, h) :
            nIn \in 0..MaxInputs, nOut \in 0..MaxOutputs, h \in BOOLEAN}
         \cup {WorkflowDefinition(FALSE, 0, 0, TRUE)}

(***************************************************************************)
(* Node Locator                                                            *)
(***************************************************************************)
RECURSIVE ServiceTableKind(_)
\* a scan that tests each line for the Output factory first
ServiceTableKindOutputFirst(lines) ==
    IF lines = <<>> THEN "neither"
    ELSE IF Contains(Head(lines), OUTPUT_FACTORY) THEN "output"
    ELSE IF Contains(Head(lines), INPUT_FACTORY) THEN "input"
    ELSE ServiceTableKind(Tail(lines))

\* the scan of one settings.xml, line by line, up to the first break: the
\* list the dirname is appended to, if any
ServiceTableKind(lines) ==
    IF lines = <<>> THEN "neither"
    ELSE IF Contains(Head(lines), INPUT_FACTORY) THEN "input"
    ELSE IF Contains(Head(lines), OUTPUT_FACTORY) THEN "output"
    ELSE ServiceTableKind(Tail(lines))

RECURSIVE SelectDirnames(_, _)
\* the dirnames, in enumeration order, that the scan appends to one list
SelectDirnames(dirs, kind) ==
    IF dirs = <<>> THEN <<>>
    ELSE (IF ServiceTableKind(Head(dirs).lines) = kind THEN <<Head(dirs).dirname>> ELSE <<>>)
            \o SelectDirnames(Tail(dirs), kind)

find_service_table_node_dirnames(wf) ==
    << SelectDirnames(wf.dirs, "input"), SelectDirnames(wf.dirs, "output") >>

\* one step of the inner loop: the id tag rebinds node_id
NodeIdAfter(sub_tag, node_id) ==
    IF sub_tag.key = "id"
    THEN PyInt(CHOOSE n \in 0..(2 + MaxInputs + MaxOutputs) : ToString(n) = sub_tag.value)   \* int(value)
    ELSE node_id

RECURSIVE SubTagLoop(_, _, _, _)
SubTagStep(sub_tags, j, nid, target_value) ==
    IF sub_tags[j].value = target_value
    THEN [node_id |-> nid, broke |-> TRUE]
    ELSE SubTagLoop(sub_tags, j + 1, nid, target_value)

\* an inner loop without the else clause: node_id keeps its value when no
\* element matches
SubTagLoopWithoutElse(sub_tags, j, node_id, target_value) ==
    IF j > Len(sub_tags) THEN [node_id |-> node_id, broke |-> FALSE]
    ELSE SubTagStep(sub_tags, j, NodeIdAfter(sub_tags[j], node_id), target_value)

\* the inner for/else of find_node_id over one node_config
SubTagLoop(sub_tags, j, node_id, target_value) ==
    IF j > Len(sub_tags) THEN [node_id |-> None, broke |-> FALSE]
    ELSE SubTagStep(sub_tags, j, NodeIdAfter(sub_tags[j], node_id), target_value)

RECURSIVE NodeConfigLoop(_, _, _, _)
\* what the outer loop does with the result r of the inner loop over
\* node_configs[k]
AfterSubTags(node_configs, k, r, target_value) ==
    IF r.node_id = Unset THEN Raised("UnboundLocalError")
    ELSE IF r.node_id # None THEN Returned(r.node_id)
    ELSE NodeConfigLoop(node_configs, k + 1, r.node_id, target_value)

\* the outer loop of find_node_id; node_id is Unset until first assigned
NodeConfigLoop(node_configs, k, node_id, target_value) ==
    IF k > Len(node_configs)
    THEN IF node_id = Unset THEN Raised("UnboundLocalError") ELSE Returned(node_id)
    ELSE AfterSubTags(node_configs, k,
                      SubTagLoop(node_configs[k], 1, node_id, target_value),
                      target_value)

\* a search that takes the registry's entries without looking for the
\* nodes config
find_node_id_any_entry(wf, unique_node_dirname) ==
    IF ~wf.exists THEN Raised("FileNotFoundError")
    ELSE NodeConfigLoop(wf.node_configs, 1, Unset, unique_node_dirname \o "/settings.xml")

find_node_id(wf, unique_node_dirname) ==
    IF ~wf.exists THEN Raised("FileNotFoundError")
    ELSE IF ~wf.has_nodes_config THEN Raised("IndexError")
    ELSE NodeConfigLoop(wf.node_configs, 1, Unset, unique_node_dirname \o "/settings.xml")

\* the list comprehension's next item in front of the rest, unless either raised
ConsNodeId(first, rest) ==
    IF first.exc # "none" THEN first
    ELSE IF rest.exc # "none" THEN rest
    ELSE Returned(<<first.val>> \o rest.val)

RECURSIVE FindNodeIds(_, _)
\* [find_node_id(path, stin) for stin in dirnames]
FindNodeIds(wf, dirnames) ==
    IF dirnames = <<>> THEN Returned(<<>>)
    ELSE ConsNodeId(find_node_id(wf, Head(dirnames)), FindNodeIds(wf, Tail(dirnames)))

find_service_table_input_node_parameter_name(wf, unique_node_dirname) ==
    LET d == CHOOSE d \in {wf.dirs[k] : k \in 1..Len(wf.dirs)} :
                d.dirname = unique_node_dirname
    IN d.parameter

(***************************************************************************)
(* The engine, seen from the local transport: the batch process ends with  *)
(* an exit code, its stderr, and for each expected output file either no   *)
(* file or a JSON document.                                                *)
(***************************************************************************)
KEYPHRASE_LOCKED == "Workflow is locked by another KNIME instance"

ABSENT == [kind |-> "absent"]

GoodTable == EncodedTable(<<OneKeyDict("a", "int")>>, << <<IntCell("1")>> >>)

OtherTable ==
    EncodedTable(<<OneKeyDict("a", "int"), OneKeyDict("b", "string")>>,
                 << <<IntCell("2"), StrCell("a")>>, <<JsonNull, StrCell("a")>> >>)

NoDataTable == "table-spec" :> <<OneKeyDict("a", "int")>>

\* a table whose second row is shorter than its table-spec
RaggedTable ==
    EncodedTable(<<OneKeyDict("a", "int"), OneKeyDict("b", "string")>>,
                 << <<IntCell("2"), StrCell("a")>>, <<IntCell("1")>> >>)

\* the documents the engine writes or returns here for its k-th output
\* node: the node's table, neighbouring nodes producing different tables,
\* or a document that lacks table-data or has a short row
EnginePayloads(k) ==
    IF k % 2 = 1 THEN {GoodTable, NoDataTable} ELSE {OtherTable, NoDataTable, RaggedTable}

\* the engine before it has written anything
NoEngineRun == [returncode |-> 0, stderr |-> "", files |-> <<>>]

\* result.stderr: None when stderr was passed through, not captured
CapturedStderr(engine, live_passthru_stdout_stderr) ==
    IF live_passthru_stdout_stderr THEN None ELSE PyStr(engine.stderr)

Min(a, b) == IF a <= b THEN a ELSE b

(***************************************************************************)
(* run_workflow_using_multiple_service_tables                              *)
(***************************************************************************)
RECURSIVE StageInputsSilently(_, _, _, _)
\* an input loop that skips a None without the warning
StageInputsSilently(node_ids, datas, k, acc) ==
    IF k > Min(Len(node_ids), Len(datas)) THEN acc
    ELSE IF datas[k] = None
    THEN StageInputsSilently(node_ids, datas, k + 1, acc)
    ELSE IF node_ids[k].kind # "int"
    THEN [acc EXCEPT !.exc = "TypeError"]
    ELSE StageInputsSilently(node_ids, datas, k + 1,
            [acc EXCEPT !.staged = Append(@,
                [node_id |-> node_ids[k],
                 data |-> convert_dataframe_to_knime_friendly_dict(datas[k])])])

RECURSIVE StageInputs(_, _, _, _)
\* the loop over zip(input_service_table_node_ids, input_datas): a warning
\* for each None, a staging file and an inputPathOrUrl option for the rest
StageInputs(node_ids, datas, k, acc) ==
    IF k > Min(Len(node_ids), Len(datas)) THEN acc
    ELSE IF datas[k] = None
    THEN StageInputs(node_ids, datas, k + 1,
            [acc EXCEPT !.warnings = Append(@, node_ids[k])])
    ELSE IF node_ids[k].kind # "int"
    THEN [acc EXCEPT !.exc = "TypeError"]
    ELSE StageInputs(node_ids, datas, k + 1,
            [acc EXCEPT !.staged = Append(@,
                [node_id |-> node_ids[k],
                 data |-> convert_dataframe_to_knime_friendly_dict(datas[k])])])

\* the loop over output_service_table_node_ids: "output_%d.json" % node_id
ExpectedOutputs(node_ids) ==
    IF \E k \in 1..Len(node_ids) : node_ids[k].kind # "int"
    THEN Raised("TypeError")
    ELSE Returned(node_ids)

\* a reading of the output files that raises only when none of them exists
ReadAnyOutputFile(files) ==
    IF files # <<>> /\ \A k \in 1..Len(files) : files[k] = ABSENT
    THEN Raised("FileNotFoundError")
    ELSE Returned(files)

\* the try block reading every expected output file
ReadOutputFiles(files) ==
    IF \E k \in 1..Len(files) : files[k] = ABSENT
    THEN Raised("FileNotFoundError")
    ELSE Returned(files)

RECURSIVE ConvertOutputs(_, _, _, _)
ConvertNext(knime_outputs, pandas_available, i, acc, df) ==
    IF df.exc # "none" THEN [exc |-> df.exc, val |-> acc]
    ELSE ConvertOutputs(knime_outputs, pandas_available, i + 1, Append(acc, df.val))

\* knime_outputs[i] = pandas.DataFrame(...) for each output; acc is the
\* list built so far
ConvertOutputs(knime_outputs, pandas_available, i, acc) ==
    IF i > Len(knime_outputs) THEN [exc |-> "none", val |-> acc]
    ELSE IF "table-spec" \notin DOMAIN knime_outputs[i]
    THEN [exc |-> "KeyError", val |-> acc]
    ELSE IF ~pandas_available
    THEN [exc |-> "AttributeError", val |-> acc]
    ELSE ConvertNext(knime_outputs, pandas_available, i, acc,
                     OutputToDataFrame(knime_outputs[i]))

Log(level, text) == <<level, text>>

\* a test of stderr that never finds the keyphrase
MentionsLockNever(stderr) == FALSE

\* `result.stderr and KEYPHRASE_LOCKED in result.stderr`
MentionsLock(stderr) ==
    stderr # None /\ stderr.s # "" /\ Contains(stderr.s, KEYPHRASE_LOCKED)

\* a handler that raises without logging what was captured
OutputMissingUnlogged(engine, live_passthru_stdout_stderr) ==
    IF MentionsLock(CapturedStderr(engine, live_passthru_stdout_stderr))
    THEN [exc |-> "ChildProcessError", msg |-> KEYPHRASE_LOCKED, logs |-> <<>>]
    ELSE [exc |-> "ChildProcessError", msg |-> "Output from KNIME not found", logs |-> <<>>]

\* the handler of FileNotFoundError; stdout and stderr are None when they
\* were passed through instead of captured
OutputMissing(engine, live_passthru_stdout_stderr) ==
    IF MentionsLock(CapturedStderr(engine, live_passthru_stdout_stderr))
    THEN [exc |-> "ChildProcessError", msg |-> KEYPHRASE_LOCKED, logs |-> <<>>]
    ELSE [exc |-> "ChildProcessError", msg |-> "Output from KNIME not found",
          logs |-> << Log("error", "captured stdout"), Log("error", "captured stderr") >>]

NoRun ==
    [exc |-> "none", msg |-> "", val |-> <<>>, warnings |-> <<>>, staged |-> <<>>,
     invoked |-> FALSE, logs |-> <<>>]

\* the warnings logged when the exit code is not zero
NonZeroLogs(engine) ==
    IF engine.returncode # 0
    THEN << Log("warning", "Return code from KNIME execution was non-zero"),
            Log("warning", "captured stdout"), Log("warning", "captured stderr") >>
    ELSE <<>>

\* an end of the function that takes a non-zero exit code for a failure
AfterConversionStrict(ran, converted, engine) ==
    IF converted.exc # "none"
    THEN [ran EXCEPT !.exc = converted.exc,
                     !.logs = @ \o <<Log("error", "error while converting KNIME output to DataFrame")>>]
    ELSE IF engine.returncode # 0
    THEN [ran EXCEPT !.exc = "ChildProcessError", !.logs = @ \o NonZeroLogs(engine)]
    ELSE [ran EXCEPT !.val = converted.val]

\* the end of the function: the outputs as read, or as DataFrames
AfterConversion(ran, converted, engine) ==
    IF converted.exc # "none"
    THEN [ran EXCEPT !.exc = converted.exc,
                     !.logs = @ \o <<Log("error", "error while converting KNIME output to DataFrame")>>]
    ELSE [ran EXCEPT !.val = converted.val, !.logs = @ \o NonZeroLogs(engine)]

\* from the return of subprocess.run on; `read` is the try block's result
AfterEngine(ran, read, engine, live_passthru_stdout_stderr, output_as_pandas_dataframes, pandas_available) ==
    IF read.exc # "none"
    THEN LET missing == OutputMissing(engine, live_passthru_stdout_stderr)   \* the except FileNotFoundError block
         IN  [ran EXCEPT !.exc = missing.exc, !.msg = missing.msg, !.logs = @ \o missing.logs]
    ELSE AfterConversion(ran,
            IF output_as_pandas_dataframes
            THEN ConvertOutputs(read.val, pandas_available, 1, <<>>)
            ELSE Returned(read.val),
            engine)

\* the state of the call when subprocess.run returns
Ran(inputs) ==
    [NoRun EXCEPT !.warnings = inputs.warnings, !.staged = inputs.staged,
                  !.invoked = TRUE, !.logs = <<Log("info", "exit code")>>]

\* from the end of the two option loops on
AfterStaging(inputs, expected, engine, live_passthru_stdout_stderr, output_as_pandas_dataframes, pandas_available) ==
    IF inputs.exc # "none"
    THEN [NoRun EXCEPT !.exc = inputs.exc, !.warnings = inputs.warnings,
                       !.staged = inputs.staged]
    ELSE IF expected.exc # "none"
    THEN [NoRun EXCEPT !.exc = expected.exc, !.warnings = inputs.warnings,
                       !.staged = inputs.staged]
    ELSE AfterEngine(Ran(inputs), ReadOutputFiles(engine.files), engine,
                     live_passthru_stdout_stderr, output_as_pandas_dataframes,
                     pandas_available)

\* the function without the strict resolve() of the workflow path
run_workflow_without_resolve(input_datas, executable_exists, wf, input_service_table_node_ids, output_service_table_node_ids, live_passthru_stdout_stderr, output_as_pandas_dataframes, pandas_available, engine) ==
    IF ~executable_exists
    THEN [NoRun EXCEPT !.exc = "ValueError", !.msg = "Executable not found"]
    ELSE AfterStaging(
            StageInputs(input_service_table_node_ids, input_datas, 1,
                        [exc |-> "none", warnings |-> <<>>, staged |-> <<>>]),
            ExpectedOutputs(output_service_table_node_ids),
            engine, live_passthru_stdout_stderr, output_as_pandas_dataframes,
            pandas_available)

run_workflow_using_multiple_service_tables(input_datas, executable_exists, wf, input_service_table_node_ids, output_service_table_node_ids, live_passthru_stdout_stderr, output_as_pandas_dataframes, pandas_available, engine) ==
    IF ~wf.exists THEN [NoRun EXCEPT !.exc = "FileNotFoundError"]
    ELSE IF ~executable_exists
    THEN [NoRun EXCEPT !.exc = "ValueError", !.msg = "Executable not found"]
    ELSE AfterStaging(
            StageInputs(input_service_table_node_ids, input_datas, 1,
                        [exc |-> "none", warnings |-> <<>>, staged |-> <<>>]),
            ExpectedOutputs(output_service_table_node_ids),
            engine, live_passthru_stdout_stderr, output_as_pandas_dataframes,
            pandas_available)

(***************************************************************************)
(* The KNIME Server, seen from the remote transport                        *)
(***************************************************************************)
Response(status_code, text, output_values) ==
    [status_code |-> status_code, text |-> text, output_values |-> output_values]

\* the keys of components.schemas.InputParameters.properties
OpenApiInputParameters(wf) ==
    SelectDirnames(
        [k \in 1..Len(wf.dirs) |->
            [dirname |-> "input-" \o ToString(k), lines |-> wf.dirs[k].lines]],
        "input")

\* answers to POST <workflow>:execution: a 200 carries the payload of each
\* Container Output (Table) node under "outputValues"
ExecutionResponses(output_values, n_outputs) ==
    {Response(c, t, <<>>) : c \in {500, 504}, t \in {"", "Timeout"}}
    \cup (IF Len(output_values) = n_outputs
          THEN {Response(200, "", output_values)} ELSE {})

\* the "outputValues" key is absent when the workflow has no output nodes
HasOutputValues(r) == r.output_values # <<>>

(***************************************************************************)
(* The handle.  h is the record of the instance attributes.                *)
(***************************************************************************)
Handle ==
    [data_table_inputs |-> data_table_inputs,
     data_table_outputs |-> data_table_outputs,
     service_table_input_nodes |-> service_table_input_nodes,
     service_table_output_nodes |-> service_table_output_nodes,
     input_ids |-> input_ids,
     output_ids |-> output_ids,
     last_status_code |-> last_status_code]

LocalWorkflow__init__ ==
    [data_table_inputs |-> None,
     data_table_outputs |-> None,
     service_table_input_nodes |-> None,
     service_table_output_nodes |-> None,
     input_ids |-> Unset,
     output_ids |-> Unset,
     last_status_code |-> Unset]

\* after the assert on the answer of GET auth/jwt
RemoteWorkflow__init__ ==
    [data_table_inputs |-> None,
     data_table_outputs |-> PyList(<<>>),
     service_table_input_nodes |-> None,
     service_table_output_nodes |-> Unset,
     input_ids |-> Unset,
     output_ids |-> Unset,
     last_status_code |-> PyInt(200)]

NoneList(n) == PyList([k \in 1..n |-> None])

\* the four assignments after the node names were assigned: each
\* find_node_id may raise and leave the rest unassigned
LocalDiscoverIds(h1, names, iids, oids) ==
    IF iids.exc # "none" THEN [exc |-> iids.exc, msg |-> "", h |-> h1, logs |-> <<>>]
    ELSE IF oids.exc # "none"
    THEN [exc |-> oids.exc, msg |-> "",
          h |-> [h1 EXCEPT !.input_ids = PyList(iids.val)], logs |-> <<>>]
    ELSE [exc |-> "none", msg |-> "",
          h |-> [h1 EXCEPT !.input_ids = PyList(iids.val),
                           !.output_ids = PyList(oids.val),
                           !.data_table_inputs = NoneList(Len(names[1])),
                           !.data_table_outputs = NoneList(Len(names[2]))],
          logs |-> <<>>]

\* a discovery that looks for the workflow directory first
LocalDiscoverNamesChecked(h, wf, names) ==
    IF ~wf.exists THEN [exc |-> "FileNotFoundError", msg |-> "", h |-> h, logs |-> <<>>]
    ELSE LocalDiscoverIds(
            [h EXCEPT !.service_table_input_nodes = PyList(names[1]),
                      !.service_table_output_nodes = PyList(names[2])],
            names, FindNodeIds(wf, names[1]), FindNodeIds(wf, names[2]))

LocalDiscoverNames(h, wf, names) ==
    LocalDiscoverIds(
        [h EXCEPT !.service_table_input_nodes = PyList(names[1]),
                  !.service_table_output_nodes = PyList(names[2])],
        names, FindNodeIds(wf, names[1]), FindNodeIds(wf, names[2]))

LocalWorkflow_discover_inputoutput_nodes(h, wf) ==
    LocalDiscoverNames(h, wf, find_service_table_node_dirnames(wf))

\* a message that leaves the response body out
ServerMessageWithoutBody(r) ==
    "Server response status code " \o ToString(r.status_code)

ServerMessage(r) ==
    "Server response status code " \o ToString(r.status_code) \o ": " \o r.text

RemoteDiscoverNames(h1, nodes, r) ==
    IF r.status_code # 200
    THEN [exc |-> "LookupError", msg |-> ServerMessage(r), h |-> h1,
          logs |-> <<Log("error", "failure querying server for workflow openapi")>>]
    ELSE [exc |-> "none", msg |-> "",
          h |-> [h1 EXCEPT !.service_table_input_nodes = PyList(nodes),
                           !.data_table_inputs = NoneList(Len(nodes))],
          logs |-> <<>>]

\* a discovery that does not record the status of the openapi answer
RemoteWorkflow_discover_unrecorded(h, wf, r) ==
    RemoteDiscoverNames(h, OpenApiInputParameters(wf), r)

RemoteWorkflow_discover_inputoutput_nodes(h, wf, r) ==
    RemoteDiscoverNames([h EXCEPT !.last_status_code = PyInt(r.status_code)],
                        OpenApiInputParameters(wf), r)

discover_inputoutput_nodes(c, h, wf, r) ==
    IF c = "Local" THEN LocalWorkflow_discover_inputoutput_nodes(h, wf)
    ELSE RemoteWorkflow_discover_inputoutput_nodes(h, wf, r)

\* the result of a property or method: the exception or the value, the
\* attributes afterwards, and whether discovery ran
Outcome(exc, msg, h, val, discovered, logs) ==
    [exc |-> exc, msg |-> msg, h |-> h, val |-> val, discovered |-> discovered,
     logs |-> logs]

\* LocalWorkflow._get_workflow_svg under _adjust_svg: workflow.svg is read
\* from the workflow directory; a text without clip ids is returned as read
LocalWorkflow_get_workflow_svg(h, svg_present) ==
    IF svg_present THEN Outcome("none", "", h, PyStr("<svg/>"), FALSE, <<>>)
    ELSE Outcome("FileNotFoundError", "", h, None, FALSE, <<>>)

\* RemoteWorkflow._get_workflow_svg under _adjust_svg, given the answer r
\* to GET <workflow>:image
RemoteWorkflow_get_workflow_svg(h, r) ==
    IF r.status_code # 200
    THEN Outcome("LookupError", ServerMessage(r),
                 [h EXCEPT !.last_status_code = PyInt(r.status_code)], None, FALSE,
                 <<Log("error", "failure during access of remote workflow SVG")>>)
    ELSE Outcome("none", "", [h EXCEPT !.last_status_code = PyInt(r.status_code)],
                 PyStr(r.text), FALSE, <<>>)

\* discovery as a property or __enter__ runs it: nothing is returned yet
AfterDiscovery(d) == Outcome(d.exc, d.msg, d.h, None, TRUE, d.logs)

\* the start of a property that runs discovery first when `stale` holds
LazyProperty(c, h, wf, r, stale) ==
    IF stale THEN AfterDiscovery(discover_inputoutput_nodes(c, h, wf, r))
    ELSE Outcome("none", "", h, None, FALSE, <<>>)

\* `return self._<attr>`, unless discovery raised
Attribute(o, attr) == IF o.exc # "none" THEN o ELSE [o EXCEPT !.val = o.h[attr]]

\* a getter that runs discovery on every read
data_table_inputs_rediscovered(c, h, wf, r) ==
    Attribute(LazyProperty(c, h, wf, r, TRUE), "data_table_inputs")

data_table_inputs_getter(c, h, wf, r) ==
    Attribute(LazyProperty(c, h, wf, r,
                h.service_table_input_nodes = None \/ h.data_table_inputs = None),
              "data_table_inputs")

\* a getter that, as RemoteWorkflow's does, never runs discovery
data_table_outputs_undiscovered(c, h, wf, r) ==
    Outcome("none", "", h, h.data_table_outputs, FALSE, <<>>)

data_table_outputs_getter(c, h, wf, r) ==
    IF c = "Local"
    THEN Attribute(LazyProperty(c, h, wf, r,
                    h.service_table_output_nodes = None \/ h.data_table_outputs = None),
                   "data_table_outputs")
    ELSE Outcome("none", "", h, h.data_table_outputs, FALSE, <<>>)

data_table_inputs_names_getter(c, h, wf, r) ==
    Attribute(LazyProperty(c, h, wf, r, h.service_table_input_nodes = None),
              "service_table_input_nodes")

RECURSIVE RSplitHead(_, _)
\* val.rsplit("-", 1)[0], scanning back from position k
RSplitHead(val, k) ==
    IF k = 0 THEN val
    ELSE IF SubSeq(val, k, k) = "-" THEN SubSeq(val, 1, k - 1)
    ELSE RSplitHead(val, k - 1)

\* the parameter name of each of these input nodes
ParameterNames(c, wf, nodes) ==
    PyList([k \in 1..Len(nodes) |->
        IF c = "Local"
        THEN find_service_table_input_node_parameter_name(wf, nodes[k])
        ELSE PyStr(RSplitHead(nodes[k], Len(nodes[k])))])

\* `return parameter_names`, unless discovery raised
NamedParameters(c, wf, o) ==
    IF o.exc # "none" THEN o
    ELSE [o EXCEPT !.val = ParameterNames(c, wf, o.h.service_table_input_nodes.items)]

data_table_inputs_parameter_names_getter(c, h, wf, r) ==
    NamedParameters(c, wf, LazyProperty(c, h, wf, r, h.service_table_input_nodes = None))

(***************************************************************************)
(* execute()                                                               *)
(***************************************************************************)
\* what one execute() call did besides its Outcome
Run(warnings, request, invoked) ==
    [warnings |-> warnings, request |-> request, invoked |-> invoked]

\* self._data_table_outputs.extend(outputs) in place of the slice assignment
LocalExecuteResultAppended(g, run) ==
    IF run.exc # "none"
    THEN [out |-> Outcome(run.exc, run.msg, g.h, None, g.discovered, run.logs),
          run |-> Run(run.warnings, run.staged, run.invoked)]
    ELSE [out |-> Outcome("none", "",
                    [g.h EXCEPT !.data_table_outputs =
                        PyList(g.h.data_table_outputs.items \o run.val)],
                    None, g.discovered, run.logs),
          run |-> Run(run.warnings, run.staged, run.invoked)]

\* self._data_table_outputs[:] = outputs, unless the transport raised
LocalExecuteResult(g, run) ==
    IF run.exc # "none"
    THEN [out |-> Outcome(run.exc, run.msg, g.h, None, g.discovered, run.logs),
          run |-> Run(run.warnings, run.staged, run.invoked)]
    ELSE [out |-> Outcome("none", "",
                    [g.h EXCEPT !.data_table_outputs = PyList(run.val)],
                    None, g.discovered, run.logs),
          run |-> Run(run.warnings, run.staged, run.invoked)]

\* execute() once self.data_table_inputs was read with result g
LocalExecuteWith(g, wf, executable_exists, live_passthru_stdout_stderr, output_as_pandas_dataframes, pandas_available, engine) ==
    IF g.exc # "none" THEN [out |-> g, run |-> Run(<<>>, <<>>, FALSE)]
    ELSE LocalExecuteResult(g,
            run_workflow_using_multiple_service_tables(
                g.val.items, executable_exists, wf,
                g.h.input_ids.items, g.h.output_ids.items,
                live_passthru_stdout_stderr, output_as_pandas_dataframes,
                pandas_available, engine))

LocalWorkflow_execute(h, wf, executable_exists, live_passthru_stdout_stderr, output_as_pandas_dataframes, pandas_available, engine) ==
    LocalExecuteWith(data_table_inputs_getter("Local", h, wf, None), wf,
                     executable_exists, live_passthru_stdout_stderr,
                     output_as_pandas_dataframes, pandas_available, engine)

\* job_input_data: every parameter name with its converted input
JobInputData(nodes, inputs) ==
    [k \in 1..Min(Len(nodes), Len(inputs)) |->
        [node_id |-> nodes[k], data |-> convert_dataframe_to_knime_friendly_dict(inputs[k])]]

RECURSIVE NoneKeys(_)
\* the node_id of every item of job_input_data whose value is None
NoneKeys(job_input_data) ==
    IF job_input_data = <<>> THEN <<>>
    ELSE (IF Head(job_input_data).data = None
          THEN <<Head(job_input_data).node_id>> ELSE <<>>)
            \o NoneKeys(Tail(job_input_data))

\* list(outputValues.values()): every payload in full
RawTables(output_values) == [exc |-> "none", val |-> output_values, logs |-> <<>>]

\* [out["table-data"] for out in outputValues.values()]
RawTableDatas(output_values) ==
    IF \E k \in 1..Len(output_values) : "table-data" \notin DOMAIN output_values[k]
    THEN [exc |-> "KeyError", val |-> <<>>, logs |-> <<>>]
    ELSE [exc |-> "none", logs |-> <<>>,
          val |-> [k \in 1..Len(output_values) |-> PyList(output_values[k]["table-data"])]]

\* the DataFrame branch: `except KeyError` keeps what was decoded so far
RemoteFrames(c) ==
    IF c.exc = "KeyError" THEN [exc |-> "none", val |-> c.val, logs |-> <<Log("info", "no output data tables produced by workflow")>>]
    ELSE IF c.exc # "none"
    THEN [exc |-> c.exc, val |-> <<>>,
          logs |-> <<Log("error", "error while converting KNIME output to DataFrame")>>]
    ELSE [exc |-> "none", val |-> c.val, logs |-> <<>>]

\* the decoding of a 200 answer into knime_outputs
RemoteOutputs(r, output_as_pandas_dataframes, pandas_available) ==
    IF output_as_pandas_dataframes
    THEN IF ~HasOutputValues(r)
         THEN [exc |-> "none", val |-> <<>>, logs |-> <<Log("info", "no output data tables produced by workflow")>>]
         ELSE RemoteFrames(ConvertOutputs(r.output_values, pandas_available, 1, <<>>))
    ELSE IF ~HasOutputValues(r) THEN [exc |-> "KeyError", val |-> <<>>, logs |-> <<>>]
         ELSE RawTableDatas(r.output_values)

\* the end of execute(): the answer was a 200 and decoded to `outs`
RemoteExecuteResult(g, h1, outs) ==
    IF outs.exc # "none"
    THEN Outcome(outs.exc, "", h1, None, g.discovered, g.logs \o outs.logs)
    ELSE Outcome("none", "", [h1 EXCEPT !.data_table_outputs = PyList(outs.val)],
                 None, g.discovered, g.logs \o outs.logs)

\* execute() from the answer r to the POST on
RemoteExecuteAnswered(g, h1, r, output_as_pandas_dataframes, pandas_available) ==
    IF r.status_code # 200
    THEN Outcome("RuntimeError", ServerMessage(r), h1, None, g.discovered,
                 g.logs \o <<Log("error", "failure during remote job execution")>>)
    ELSE RemoteExecuteResult(g, h1,
            RemoteOutputs(r, output_as_pandas_dataframes, pandas_available))

\* execute() from the POST of job_input_data on
RemoteExecutePost(g, job_input_data, r, output_as_pandas_dataframes, pandas_available) ==
    [out |-> RemoteExecuteAnswered(g,
                [g.h EXCEPT !.last_status_code = PyInt(r.status_code)],
                r, output_as_pandas_dataframes, pandas_available),
     run |-> Run(NoneKeys(job_input_data), job_input_data, TRUE)]

\* execute() once self.data_table_inputs was read with result g
RemoteExecuteWith(g, r, output_as_pandas_dataframes, pandas_available) ==
    IF g.exc # "none" THEN [out |-> g, run |-> Run(<<>>, <<>>, FALSE)]
    ELSE RemoteExecutePost(g,
            JobInputData(g.h.service_table_input_nodes.items, g.val.items),
            r, output_as_pandas_dataframes, pandas_available)

RemoteWorkflow_execute(h, wf, openapi, output_as_pandas_dataframes, pandas_available, r) ==
    RemoteExecuteWith(data_table_inputs_getter("Remote", h, wf, openapi), r,
                      output_as_pandas_dataframes, pandas_available)

(***************************************************************************)
(* The caller                                                              *)
(***************************************************************************)
\* `import pandas` succeeded when the module was loaded
pandas == TRUE

\* list.__setitem__ on the list g.val that the property returned
SetItem(g, i, value) ==
    IF g.exc # "none" THEN g
    ELSE IF i > Len(g.val.items)
    THEN Outcome("IndexError", "", g.h, None, g.discovered, g.logs)
    ELSE Outcome("none", "",
            [g.h EXCEPT !.data_table_inputs = PyList([g.val.items EXCEPT ![i] = value])],
            None, g.discovered, g.logs)

(***************************************************************************)
(* The state machine                                                       *)
(***************************************************************************)
\* no discovery has run on the handle
Unopened(h) == h.service_table_input_nodes = None /\ h.data_table_inputs = None

\* the arguments of one execute() call, and whether the module-level
\* executable_path names an existing file at that time
Args(executable_exists, live_passthru_stdout_stderr, output_as_pandas_dataframes) ==
    [executable_exists |-> executable_exists,
     live_passthru_stdout_stderr |-> live_passthru_stdout_stderr,
     output_as_pandas_dataframes |-> output_as_pandas_dataframes]

NoArgs == Args(TRUE, FALSE, FALSE)

\* the history of one operation
History(op, unopened, out, run, engine, args) ==
    [op |-> op, unopened |-> unopened, discovered |-> out.discovered,
     exc |-> out.exc, msg |-> out.msg, val |-> out.val,
     warnings |-> run.warnings, request |-> run.request, invoked |-> run.invoked,
     engine |-> engine, args |-> args, logs |-> out.logs]

SetHandle(h) ==
    /\ data_table_inputs' = h.data_table_inputs
    /\ data_table_outputs' = h.data_table_outputs
    /\ service_table_input_nodes' = h.service_table_input_nodes
    /\ service_table_output_nodes' = h.service_table_output_nodes
    /\ input_ids' = h.input_ids
    /\ output_ids' = h.output_ids
    /\ last_status_code' = h.last_status_code

\* no execute() call is in progress
NoCall == [pc |-> "idle", args |-> NoArgs, engine |-> NoEngineRun]

InitHandle(is_url, wf) ==
    /\ cls = (IF is_url THEN "Remote" ELSE "Local")   \* Workflow.__new__ picks the class
    /\ wfdef = wf
    /\ call = NoCall
    /\ LET h == IF is_url THEN RemoteWorkflow__init__ ELSE LocalWorkflow__init__
       IN  /\ data_table_inputs = h.data_table_inputs
           /\ data_table_outputs = h.data_table_outputs
           /\ service_table_input_nodes = h.service_table_input_nodes
           /\ service_table_output_nodes = h.service_table_output_nodes
           /\ input_ids = h.input_ids
           /\ output_ids = h.output_ids
           /\ last_status_code = h.last_status_code
           /\ last = History("__init__", TRUE, Outcome("none", "", h, None, FALSE, <<>>),
                             Run(<<>>, <<>>, FALSE), None, NoArgs)

Init ==
    /\ \E is_url \in BOOLEAN :
        \E wf \in Definitions(is_url) :
            InitHandle(is_url, wf)
    /\ codec = [step |-> "idle", x |-> None, enc |-> None, dec |-> Returned(None)]

\* one complete operation on the handle with outcome `out`
Step(op, out, run, engine, args) ==
    /\ SetHandle(out.h)
    /\ last' = History(op, Unopened(Handle), out, run, engine, args)
    /\ call' = NoCall
    /\ UNCHANGED <<cls, wfdef, codec>>

\* the server's possible answers to this operation's openapi request; the
\* local transport asks nothing
OpenApiAnswers ==
    IF cls = "Local" THEN {Response(200, "", <<>>)}
    ELSE {Response(200, "", <<>>), Response(404, "Not Found", <<>>)}

EnterContext ==
    /\ call.pc = "idle"
    /\ \E r \in OpenApiAnswers :
        Step("__enter__", AfterDiscovery(discover_inputoutput_nodes(cls, Handle, wfdef, r)), Run(<<>>, <<>>, FALSE), None, NoArgs)

ExitContext ==
    /\ call.pc = "idle"
    /\ Step("__exit__", Outcome("none", "", Handle, None, FALSE, <<>>),
            Run(<<>>, <<>>, FALSE), None, NoArgs)

ReadInputs ==
    /\ call.pc = "idle"
    /\ \E r \in OpenApiAnswers :
        Step("data_table_inputs", data_table_inputs_getter(cls, Handle, wfdef, r),
             Run(<<>>, <<>>, FALSE), None, NoArgs)

ReadOutputs ==
    /\ call.pc = "idle"
    /\ \E r \in OpenApiAnswers :
        Step("data_table_outputs", data_table_outputs_getter(cls, Handle, wfdef, r),
             Run(<<>>, <<>>, FALSE), None, NoArgs)

ReadInputNames ==
    /\ call.pc = "idle"
    /\ \E r \in OpenApiAnswers :
        Step("data_table_inputs_names",
             data_table_inputs_names_getter(cls, Handle, wfdef, r),
             Run(<<>>, <<>>, FALSE), None, NoArgs)

ReadParameterNames ==
    /\ call.pc = "idle"
    /\ \E r \in OpenApiAnswers :
        Step("data_table_inputs_parameter_names",
             data_table_inputs_parameter_names_getter(cls, Handle, wfdef, r),
             Run(<<>>, <<>>, FALSE), None, NoArgs)

WriteInput ==
    /\ call.pc = "idle"
    \* the caller puts None or a frame in an input slot
    /\ \E r \in OpenApiAnswers, i \in 1..MaxInputs,
          value \in {None, DataFrame(<<"a">>, <<"int64">>, << <<IntCell("1")>> >>)} :
        Step("setitem", SetItem(data_table_inputs_getter(cls, Handle, wfdef, r), i, value), Run(<<>>, <<>>, FALSE), None, NoArgs)

\* what the history shows of the engine process: its exit code, the stderr
\* execute() captured, and the output files
EngineSeen(c) ==
    [returncode |-> c.engine.returncode,
     stderr |-> CapturedStderr(c.engine, c.args.live_passthru_stdout_stderr),
     files |-> c.engine.files]

\* the call blocks in subprocess.run, or in requests.post: so far the
\* handle has changed by the read g of self.data_table_inputs only
Blocked(g, e, pc, args, engine) ==
    /\ SetHandle(g.h)
    /\ call' = [pc |-> pc, args |-> args, engine |-> engine]
    /\ last' = History("execute", Unopened(Handle),
                   Outcome("running", "", g.h, None, g.discovered, <<>>),
                   e.run, None, args)
    /\ UNCHANGED <<cls, wfdef, codec>>

\* execute() up to the engine: it raises, or blocks at pc
BeginWith(g, e, pc, args, engine) ==
    IF e.run.invoked THEN Blocked(g, e, pc, args, engine)
    ELSE Step("execute", e.out, e.run, None, args)

LocalBeginWith(g, executable_exists, live_passthru_stdout_stderr, output_as_pandas_dataframes) ==
    BeginWith(g,
              LocalExecuteWith(g, wfdef, executable_exists, live_passthru_stdout_stderr,
                               output_as_pandas_dataframes, pandas, NoEngineRun),
              "engine",
              Args(executable_exists, live_passthru_stdout_stderr,
                   output_as_pandas_dataframes),
              NoEngineRun)

\* LocalWorkflow.execute up to subprocess.run: the call either raises before
\* the engine is started or blocks until the engine process has ended
ExecuteLocalBegin ==
    /\ call.pc = "idle"
    /\ cls = "Local"
    /\ \E executable_exists \in BOOLEAN, live \in BOOLEAN, as_df \in BOOLEAN :
        LocalBeginWith(data_table_inputs_getter("Local", Handle, wfdef, None),
                       executable_exists, live, as_df)

\* the engine process writes, or fails to write, its next output file
EngineWritesOutput ==
    /\ call.pc = "engine"
    /\ Len(call.engine.files) < Len(output_ids.items)
    /\ \E f \in EnginePayloads(Len(call.engine.files) + 1) \cup {ABSENT} :
        call' = [call EXCEPT !.engine.files = Append(@, f)]
    /\ UNCHANGED <<cls, wfdef, data_table_inputs, data_table_outputs,
                   service_table_input_nodes, service_table_output_nodes,
                   input_ids, output_ids, last_status_code, last, codec>>

\* the engine process ends
EngineExits ==
    /\ call.pc = "engine"
    /\ Len(call.engine.files) = Len(output_ids.items)
    /\ \E returncode \in {0, 1}, stderr \in {"", "ERROR " \o KEYPHRASE_LOCKED} :
        call' = [call EXCEPT !.pc = "exited", !.engine.returncode = returncode,
                             !.engine.stderr = stderr]
    /\ UNCHANGED <<cls, wfdef, data_table_inputs, data_table_outputs,
                   service_table_input_nodes, service_table_output_nodes,
                   input_ids, output_ids, last_status_code, last, codec>>

\* execute() returns or raises with e, having seen `engine`
EndWith(e, engine) ==
    /\ SetHandle(e.out.h)
    /\ last' = History("execute", last.unopened,
                   [e.out EXCEPT !.discovered = last.discovered],
                   e.run, engine, call.args)
    /\ call' = NoCall
    /\ UNCHANGED <<cls, wfdef, codec>>

\* LocalWorkflow.execute from the return of subprocess.run on
ExecuteLocalEnd ==
    /\ call.pc = "exited"
    /\ EndWith(LocalWorkflow_execute(Handle, wfdef, TRUE,
                                     call.args.live_passthru_stdout_stderr,
                                     call.args.output_as_pandas_dataframes,
                                     pandas, call.engine),
               EngineSeen(call))

\* the server before it has run anything
NoResponse == Response(200, "", <<>>)

RemoteBeginAfter(g, output_as_pandas_dataframes) ==
    BeginWith(g,
              RemoteExecuteWith(g, NoResponse, output_as_pandas_dataframes, pandas),
              "server",
              Args(TRUE, FALSE, output_as_pandas_dataframes),
              NoResponse)

\* RemoteWorkflow.execute up to requests.post: the call either raises
\* before the job is posted or blocks until the server has answered
ExecuteRemoteBegin ==
    /\ call.pc = "idle"
    /\ cls = "Remote"
    /\ \E openapi \in OpenApiAnswers, as_df \in BOOLEAN :
        RemoteBeginAfter(data_table_inputs_getter("Remote", Handle, wfdef, openapi), as_df)

\* the job on the server produces the payload of its next output node
ServerWritesOutput ==
    /\ call.pc = "server"
    /\ Len(call.engine.output_values) < wfdef.n_outputs
    /\ \E f \in EnginePayloads(Len(call.engine.output_values) + 1) :
        call' = [call EXCEPT !.engine.output_values = Append(@, f)]
    /\ UNCHANGED <<cls, wfdef, data_table_inputs, data_table_outputs,
                   service_table_input_nodes, service_table_output_nodes,
                   input_ids, output_ids, last_status_code, last, codec>>

\* the server answers the POST: a 200 once the job has ended, or an error
ServerAnswers ==
    /\ call.pc = "server"
    /\ \E r \in ExecutionResponses(call.engine.output_values, wfdef.n_outputs) :
        call' = [call EXCEPT !.pc = "answered", !.engine = r]
    /\ UNCHANGED <<cls, wfdef, data_table_inputs, data_table_outputs,
                   service_table_input_nodes, service_table_output_nodes,
                   input_ids, output_ids, last_status_code, last, codec>>

\* RemoteWorkflow.execute from the return of requests.post on
ExecuteRemoteEnd ==
    /\ call.pc = "answered"
    /\ EndWith(RemoteWorkflow_execute(Handle, wfdef, NoResponse,
                                      call.args.output_as_pandas_dataframes,
                                      pandas, call.engine),
               call.engine)

\* _repr_svg_: the local transport finds workflow.svg or not, the server
\* answers the image request with the SVG or with an error
ReprSvg ==
    /\ call.pc = "idle"
    /\ IF cls = "Local"
       THEN \E svg_present \in (IF wfdef.exists THEN BOOLEAN ELSE {FALSE}) :
                Step("_repr_svg_", LocalWorkflow_get_workflow_svg(Handle, svg_present),
                     Run(<<>>, <<>>, FALSE), None, NoArgs)
       ELSE \E r \in {Response(200, "<svg/>", <<>>), Response(404, "Not Found", <<>>)} :
                Step("_repr_svg_", RemoteWorkflow_get_workflow_svg(Handle, r),
                     Run(<<>>, <<>>, FALSE), None, NoArgs)

Next ==
    \/ EnterContext
    \/ ExitContext
    \/ ReprSvg
    \/ ReadInputs
    \/ ReadOutputs
    \/ ReadInputNames
    \/ ReadParameterNames
    \/ WriteInput
    \/ ExecuteLocalBegin
    \/ EngineWritesOutput
    \/ EngineExits
    \/ ExecuteLocalEnd
    \/ ExecuteRemoteBegin
    \/ ServerWritesOutput
    \/ ServerAnswers
    \/ ExecuteRemoteEnd

Spec == Init /\ [][Next]_vars

(***************************************************************************)
(* The codec on its own: a value is encoded, and the encoding decoded as   *)
(* execute() decodes an output.                                            *)
(***************************************************************************)
\* the rows a frame with these column dtypes can hold
RowsOf(dtypes) ==
    {r \in [1..Len(dtypes) -> UNION {CellsOf(d) : d \in Dtypes}] : \A i \in 1..Len(dtypes) : r[i] \in CellsOf(dtypes[i])}

FramesOf(columns) ==
    IF columns = <<>> THEN {DataFrame(<<>>, <<>>, <<>>)}
    ELSE UNION {{DataFrame(columns, dtypes, data) : data \in SeqsUpTo(RowsOf(dtypes), MaxRows)} :
                    dtypes \in {s \in SeqsUpTo(Dtypes, Len(columns)) : Len(s) = Len(columns)}}

InitCodec ==
    /\ InitHandle(FALSE, WorkflowDefinition(FALSE, 0, 0, TRUE))
    /\ \E columns \in {s \in SeqsUpTo(ColNames, MaxCols) : \A i, j \in 1..Len(s) : i # j => s[i] # s[j]} :
       \E x \in FramesOf(columns) \cup {None, GoodTable, OtherTable, NoDataTable} :
        codec = [step |-> "input", x |-> x, enc |-> None, dec |-> Returned(None)]

CodecEncode ==
    /\ codec.step = "input"
    /\ codec' = [codec EXCEPT !.step = "encoded",
                              !.enc = convert_dataframe_to_knime_friendly_dict(codec.x)]
    /\ UNCHANGED handleVars

\* the decoding execute() applies to an output, for an encoding that is a dict
CodecDecode ==
    /\ codec.step = "encoded"
    /\ codec.enc # None
    /\ codec' = [codec EXCEPT !.step = "decoded", !.dec = OutputToDataFrame(codec.enc)]
    /\ UNCHANGED handleVars

SpecCodec == InitCodec /\ [][CodecEncode \/ CodecDecode]_vars

(***************************************************************************)
(* The type mapper on its own, applied to str(dtype) descriptors           *)
(***************************************************************************)
RECURSIVE Concat(_)
Concat(tokens) == IF tokens = <<>> THEN "" ELSE Head(tokens) \o Concat(Tail(tokens))

InitMapper ==
    /\ InitHandle(FALSE, WorkflowDefinition(FALSE, 0, 0, TRUE))
    \* the fragments that the names of dtypes are made of: "uint64",
    \* "float32", "longlong", "boolu", "object"
    /\ \E tokens \in SeqsUpTo({"float", "int", "64", "long", "bool", "u", "object"}, MaxTokens) :
        codec = [step |-> "descriptor", x |-> Concat(tokens), enc |-> None,
                 dec |-> Returned(None)]

MapType ==
    /\ codec.step = "descriptor"
    /\ codec' = [codec EXCEPT !.step = "mapped", !.enc = pandas_type_mapper(codec.x)]
    /\ UNCHANGED handleVars

SpecMapper == InitMapper /\ [][MapType]_vars

(***************************************************************************)
(* The node locator on its own: the node directories of a workflow are     *)
(* classified, then each is looked up in the registry of workflow.knime.   *)
(***************************************************************************)
\* a workflow of two node directories whose settings.xml hold the given
\* lines, registered as KNIME registers them
TwoNodes(lines1, lines2) ==
    [WorkflowDefinition(TRUE, 0, 0, TRUE) EXCEPT
        !.dirs = << NodeDir(NodeDirname("Node", 1), lines1, None),
                    NodeDir(NodeDirname("Node", 2), lines2, None) >>,
        !.node_configs = << NodeConfig(1, NodeDirname("Node", 1)),
                            NodeConfig(2, NodeDirname("Node", 2)) >>]

\* the workflow of one input, one output and one other node, with the
\* entries of its registry in the order `entries` and the elements of the
\* k-th of them in the order orders[k]
Registered(wf, entries, orders) ==
    [wf EXCEPT !.node_configs =
        [k \in DOMAIN wf.node_configs |->
            [j \in DOMAIN wf.node_configs[entries[k]] |->
                wf.node_configs[entries[k]][orders[k][j]]]]]

\* the workflows given to the locator: two node directories whose
\* settings.xml are made of lines that reference the Input factory, the
\* Output factory, both, or neither; or three nodes registered in any order
InitLocator ==
    /\ InitHandle(FALSE, WorkflowDefinition(FALSE, 0, 0, TRUE))
    /\ LET line == {INPUT_FACTORY, OUTPUT_FACTORY, OUTPUT_FACTORY \o " " \o INPUT_FACTORY,
                    "RowFilterNodeFactory"}
           wf3 == WorkflowDefinition(TRUE, 1, 1, TRUE)
           entry == DOMAIN wf3.node_configs
           element == DOMAIN NodeConfig(1, "")
       IN  \E wf \in {TwoNodes(lines1, lines2) : lines1, lines2 \in SeqsUpTo(line, MaxLines)}
                    \cup {Registered(wf3, entries, orders) :
                            entries \in Permutations(entry),
                            orders \in [entry -> Permutations(element)]} :
            codec = [step |-> "definition", x |-> wf, enc |-> None, dec |-> <<>>]

ClassifyNodes ==
    /\ codec.step = "definition"
    /\ codec' = [codec EXCEPT !.step = "classified",
                              !.enc = find_service_table_node_dirnames(codec.x)]
    /\ UNCHANGED handleVars

\* find_node_id for every node directory of the workflow
LocateNodes ==
    /\ codec.step = "classified"
    /\ codec' = [codec EXCEPT !.step = "located",
                              !.dec = [k \in DOMAIN codec.x.dirs |->
                                        find_node_id(codec.x, codec.x.dirs[k].dirname)]]
    /\ UNCHANGED handleVars

SpecLocator == InitLocator /\ [][ClassifyNodes \/ LocateNodes]_vars

(***************************************************************************)
(* Two local execute() calls on one workflow, interleaved at their file    *)
(* operations.  The file system holds the temporary directories and the    *)
(* staging files in them; each file remembers the calls that wrote or      *)
(* read it.                                                                *)
(***************************************************************************)
\* a staging directory taken under a name that may be in use
mkdtemp_any_name(dirs) == {"tmp_a", "tmp_b", "tmp_c"}

\* tempfile.TemporaryDirectory(): mkdtemp makes a directory under a name
\* that no existing directory has
mkdtemp(dirs) == {"tmp_a", "tmp_b", "tmp_c"} \ dirs

\* the node ids that discovery gives the two calls
StagedIds ==
    LocalWorkflow_discover_inputoutput_nodes(
        LocalWorkflow__init__, WorkflowDefinition(TRUE, MaxInputs, MaxOutputs, TRUE)).h

\* Path(temp_dir, pattern % node_id)
StagingPath(temp_dir, prefix, node_id) ==
    <<temp_dir, prefix \o ToString(node_id.n) \o ".json">>

\* the file at `path` after call c, or its engine, has opened it
Opened(files, path, c) ==
    [p \in DOMAIN files \cup {path} |->
        IF p # path THEN files[p]
        ELSE IF p \in DOMAIN files THEN files[p] \cup {c} ELSE {c}]

\* a call outside the with statement; temp_dir is "" while it names nothing
NotStarted == [pc |-> "idle", temp_dir |-> "", staged |-> 0, read |-> 0, exc |-> "none"]

InitStaging ==
    /\ InitHandle(FALSE, WorkflowDefinition(FALSE, 0, 0, TRUE))
    /\ codec = [step |-> "staging", dirs |-> {}, files |-> [p \in {} |-> {}],
                calls |-> [c \in {"first", "second"} |-> NotStarted]]

\* execute() is called and reaches the with statement, or raises before it
EnterTempDir ==
    \E c \in DOMAIN codec.calls :
        /\ codec.step = "staging"
        /\ codec.calls[c].pc \in {"idle", "ended"}
        /\ \/ \E d \in mkdtemp(codec.dirs) :
                codec' = [codec EXCEPT !.dirs = @ \cup {d},
                                       !.calls[c] = [NotStarted EXCEPT !.pc = "staging", !.temp_dir = d]]
           \/ codec' = [codec EXCEPT !.calls[c] = [NotStarted EXCEPT !.pc = "ended", !.exc = "ValueError"]]
        /\ UNCHANGED handleVars

\* one turn of the loop over the inputs: an input that is None is passed
\* over; for any other the input file is opened for writing, and json.dump
\* writes it or raises
StageInput ==
    \E c \in DOMAIN codec.calls :
        /\ codec.step = "staging"
        /\ codec.calls[c].pc = "staging"
        /\ IF codec.calls[c].staged = Len(StagedIds.input_ids.items)
           THEN codec' = [codec EXCEPT !.calls[c].pc = "engine"]
           ELSE \/ codec' = [codec EXCEPT !.calls[c].staged = @ + 1]
                \/ \E dumped \in BOOLEAN :
                    codec' = [codec EXCEPT
                        !.files = Opened(@, StagingPath(codec.calls[c].temp_dir, "input_",
                                            StagedIds.input_ids.items[codec.calls[c].staged + 1]), c),
                        !.calls[c].staged = @ + 1,
                        !.calls[c].pc = IF dumped THEN "staging" ELSE "leaving",
                        !.calls[c].exc = IF dumped THEN "none" ELSE "TypeError"]
        /\ UNCHANGED handleVars

\* the engine started by subprocess.run writes the output file of one of
\* the output nodes at the path its option names
EngineWritesStaged ==
    \E c \in DOMAIN codec.calls :
        /\ codec.step = "staging"
        /\ codec.calls[c].pc = "engine"
        /\ \E k \in DOMAIN StagedIds.output_ids.items :
            LET path == StagingPath(codec.calls[c].temp_dir, "output_", StagedIds.output_ids.items[k])
            IN  /\ path \notin DOMAIN codec.files
                /\ codec' = [codec EXCEPT !.files = Opened(@, path, c)]
        /\ UNCHANGED handleVars

\* subprocess.run returns
EngineReturns ==
    \E c \in DOMAIN codec.calls :
        /\ codec.step = "staging"
        /\ codec.calls[c].pc = "engine"
        /\ codec' = [codec EXCEPT !.calls[c].pc = "reading"]
        /\ UNCHANGED handleVars

\* one turn of the loop over expected_output_json_files: the file is
\* opened and read, or FileNotFoundError becomes ChildProcessError
ReadStagedOutput ==
    \E c \in DOMAIN codec.calls :
        /\ codec.step = "staging"
        /\ codec.calls[c].pc = "reading"
        /\ IF codec.calls[c].read = Len(StagedIds.output_ids.items)
           THEN codec' = [codec EXCEPT !.calls[c].pc = "leaving"]
           ELSE LET path == StagingPath(codec.calls[c].temp_dir, "output_",
                                StagedIds.output_ids.items[codec.calls[c].read + 1])
                IN  IF path \in DOMAIN codec.files
                    THEN codec' = [codec EXCEPT !.files = Opened(@, path, c),
                                                !.calls[c].read = @ + 1]
                    ELSE codec' = [codec EXCEPT !.calls[c].pc = "leaving",
                                                !.calls[c].exc = "ChildProcessError"]
        /\ UNCHANGED handleVars

\* the with statement is left, by the return or by the exception: the
\* directory and everything in it is removed
LeaveTempDir ==
    \E c \in DOMAIN codec.calls :
        /\ codec.step = "staging"
        /\ codec.calls[c].pc = "leaving"
        /\ codec' = [codec EXCEPT
                !.dirs = @ \ {codec.calls[c].temp_dir},
                !.files = [p \in {q \in DOMAIN @ : q[1] # codec.calls[c].temp_dir} |-> @[p]],
                !.calls[c].pc = "ended"]
        /\ UNCHANGED handleVars

SpecStaging ==
    InitStaging /\ [][\/ EnterTempDir
                      \/ StageInput
                      \/ EngineWritesStaged
                      \/ EngineReturns
                      \/ ReadStagedOutput
                      \/ LeaveTempDir]_vars

(***************************************************************************)
(* What the claims speak of                                                *)
(***************************************************************************)
\* an execute() call has ended, and it was the last handle operation
Executed == call.pc = "idle" /\ last.op = "execute"

\* discovery has succeeded on the handle
Discovered(h) == h.service_table_input_nodes # None /\ h.data_table_inputs # None

\* what a warning or a submission names input slot k by: the node id
\* locally, the parameter name remotely
SlotName(k) ==
    IF cls = "Local" THEN input_ids.items[k] ELSE service_table_input_nodes.items[k]

NoneSlots ==
    {k \in 1..Len(data_table_inputs.items) : data_table_inputs.items[k] = None}

\* something was submitted to the engine under the name of slot k
Submitted(k) == \E j \in 1..Len(last.request) : last.request[j].node_id = SlotName(k)

WarningsFor(k) ==
    Cardinality({j \in 1..Len(last.warnings) : last.warnings[j] = SlotName(k)})

\* a payload with both keys and rows as wide as its table-spec
WellFormed(p) ==
    /\ "table-spec" \in DOMAIN p
    /\ "table-data" \in DOMAIN p
    /\ \A r \in Rows(p["table-data"]) :
        Len(p["table-data"][r]) = Len(FlattenKeys(p["table-spec"]))

\* the outputs of the engine run e: files locally, outputValues remotely
EngineOutputs(e) == IF cls = "Local" THEN e.files ELSE e.output_values

\* the engine ran and produced each of its outputs
EngineProduced(e) ==
    IF cls = "Local" THEN \A k \in 1..Len(e.files) : e.files[k] # ABSENT
    ELSE e.status_code = 200

\* what execute() makes of well-formed engine outputs
Decoded(outputs, output_as_pandas_dataframes) ==
    IF output_as_pandas_dataframes THEN ConvertOutputs(outputs, pandas, 1, <<>>).val
    ELSE IF cls = "Local" THEN outputs
    ELSE [k \in 1..Len(outputs) |-> PyList(outputs[k]["table-data"])]

\* numbers compare by value: 1 and 1.0 are equal
Normal(c) == IF c.t = "int" THEN FloatCell(c.v \o ".0") ELSE c

\* a cell and its decoding are equal; a missing cell comes back missing
SameValue(a, b) == IF IsNa(a) THEN IsNa(b) ELSE ~IsNa(b) /\ Normal(a) = Normal(b)

(***************************************************************************)
(* C1                                                                      *)
(***************************************************************************)
\* C1: decoding the encoding of any tabular value gives the same column
\* names in the same order, the same number of rows in the same order and
\* cell-wise equal values, a missing cell coming back as missing and not
\* as a sentinel value.
C1_RoundTrip ==
    codec.step = "decoded" /\ HasDtypes(codec.x) =>
        /\ codec.dec.exc = "none"
        /\ codec.dec.val.columns = codec.x.columns
        /\ Len(codec.dec.val.data) = Len(codec.x.data)
        /\ \A r \in Rows(codec.x.data) : \A i \in 1..Len(codec.x.columns) :
            SameValue(codec.x.data[r][i], codec.dec.val.data[r][i])

(***************************************************************************)
(* C2                                                                      *)
(***************************************************************************)
\* C2: in both transports, nothing is submitted to the engine for an input
\* slot that is None at execute time: no staging file and no inputPathOrUrl
\* option locally, no entry in the request body remotely.
C2_NoneNotSubmitted ==
    Executed /\ last.invoked => \A k \in NoneSlots : ~Submitted(k)

(***************************************************************************)
(* C3                                                                      *)
(***************************************************************************)
\* the engine produced its outputs, each a well-formed payload; remotely
\* the answer carries them under outputValues
ProducedOutputs ==
    /\ last.engine # None
    /\ EngineProduced(last.engine)
    /\ \A k \in 1..Len(EngineOutputs(last.engine)) :
        WellFormed(EngineOutputs(last.engine)[k])
    /\ cls = "Remote" => HasOutputValues(last.engine)

\* the call returned with the engine's outputs in output_slots
CompletedWithOutputs ==
    /\ last.exc = "none"
    /\ data_table_outputs.items =
        Decoded(EngineOutputs(last.engine), last.args.output_as_pandas_dataframes)

PreChecksPassed ==
    cls = "Local" => wfdef.exists /\ last.args.executable_exists

LocalRan == Executed /\ cls = "Local" /\ last.engine # None

WarnedNonZero ==
    \E j \in 1..Len(last.logs) :
        last.logs[j] = Log("warning", "Return code from KNIME execution was non-zero")

\* C4 as claimed: a local execution after which every expected output
\* artifact exists returns those outputs, one per output node in order,
\* for every exit code; a non-zero exit code only adds a logged warning.
C4_PresentOutputsReturned ==
    LocalRan /\ EngineProduced(last.engine) =>
        /\ last.exc = "none"
        /\ Len(data_table_outputs.items) = Len(output_ids.items)
        /\ WarnedNonZero <=> last.engine.returncode # 0

\* C4 as amended: a local execution after which every expected output
\* artifact exists and, when DataFrames are requested, holds a payload a
\* DataFrame can be built from, returns those outputs, one per output node
\* in order, for every exit code; a non-zero exit code only adds a logged
\* warning.
C4_DecodableOutputsReturned ==
    /\ LocalRan
    /\ EngineProduced(last.engine)
    /\ last.args.output_as_pandas_dataframes =>
            \A k \in 1..Len(last.engine.files) : WellFormed(last.engine.files[k])
    => /\ CompletedWithOutputs
       /\ Len(data_table_outputs.items) = Len(output_ids.items)
       /\ WarnedNonZero <=> last.engine.returncode # 0

C4_Witness ==
    /\ LocalRan
    /\ last.engine.returncode # 0
    /\ Len(last.engine.files) = MaxOutputs
    /\ last.exc = "none"
    /\ last.args.output_as_pandas_dataframes
    /\ data_table_outputs.items[1] # data_table_outputs.items[2]

(***************************************************************************)
(* C5                                                                      *)
(***************************************************************************)
\* C5: when the engine process of a local execution has ended and any
\* expected output artifact is absent, execute() raises ChildProcessError
\* whatever the exit code and leaves output_slots as they were, even when
\* other expected artifacts are present.
C5_MissingOutputRaises ==
    [][call.pc = "exited" /\ (\E k \in 1..Len(call.engine.files) : call.engine.files[k] = ABSENT)
        => /\ last'.exc = "ChildProcessError"
           /\ data_table_outputs' = data_table_outputs]_vars

C5_Witness ==
    /\ LocalRan
    /\ last.engine.returncode = 0
    /\ \E k \in 1..Len(last.engine.files) : last.engine.files[k] = ABSENT
    /\ \E k \in 1..Len(last.engine.files) : last.engine.files[k] # ABSENT
    /\ last.exc = "ChildProcessError"

(***************************************************************************)
(* C6                                                                      *)
(***************************************************************************)
\* C6: a remote execute() whose answer has a status other than 200 raises
\* RuntimeError with a message holding the status code and the response
\* body verbatim, and decodes no outputs: output_slots stay as they were.
C6_Non200Raises ==
    [][call.pc = "answered" /\ call.engine.status_code # 200
        => /\ last'.exc = "RuntimeError"
           /\ Contains(last'.msg, ToString(call.engine.status_code))
           /\ Contains(last'.msg, call.engine.text)
           /\ data_table_outputs' = data_table_outputs]_vars

C6_Witness ==
    /\ Executed
    /\ cls = "Remote"
    /\ last.engine # None
    /\ last.engine.status_code = 504
    /\ last.engine.text = "Timeout"
    /\ last.exc = "RuntimeError"
    /\ Len(data_table_outputs.items) = MaxOutputs

(***************************************************************************)
(* C7                                                                      *)
(***************************************************************************)
\* an execute() call ends in this step
ExecuteEnds == call'.pc = "idle" /\ last'.op = "execute"

\* C7: on a handle whose output_slots exist, after an execute() that
\* returns normally output_slots holds one output for each output the
\* engine produced in that call, none missing and none left over; after an
\* execute() that raises, output_slots is what it was before the call.
C7_AllOrNothing ==
    [][ExecuteEnds /\ data_table_outputs # None =>
        IF last'.exc = "none"
        THEN Len(data_table_outputs'.items) = Len(EngineOutputs(call.engine))
        ELSE data_table_outputs' = data_table_outputs]_vars

(***************************************************************************)
(* C8                                                                      *)
(***************************************************************************)
\* every value the caller wrote is still in its slot after the step
WrittenInputsKept ==
    \A i \in 1..Len(data_table_inputs.items) :
        data_table_inputs.items[i] # None =>
            /\ data_table_inputs' # None
            /\ i <= Len(data_table_inputs'.items)
            /\ data_table_inputs'.items[i] = data_table_inputs.items[i]

\* C8 as claimed: a value the caller wrote into an input slot stays there
\* across every handle operation other than the caller's own writes.
C8_InputsOnlyCallerWritten ==
    [][data_table_inputs # None /\ last'.op # "setitem" => WrittenInputsKept]_vars

\* C8 as amended: a value the caller wrote into an input slot stays there
\* across every handle operation other than the caller's own writes and
\* entering the context manager; __enter__ runs discovery again and, when
\* discovery raises nothing, leaves every input slot None.
C8_InputsKeptUntilEnter ==
    [][/\ data_table_inputs # None /\ last'.op \notin {"setitem", "__enter__"}
            => WrittenInputsKept
       /\ last'.op = "__enter__" /\ last'.exc = "none"
            => \A i \in 1..Len(data_table_inputs'.items) :
                    data_table_inputs'.items[i] = None]_vars

C8_Witness ==
    /\ Executed
    /\ last.exc \notin {"none", "running"}
    /\ data_table_inputs # None
    /\ \E i \in 1..Len(data_table_inputs.items) : data_table_inputs.items[i] # None

(***************************************************************************)
(* C9                                                                      *)
(***************************************************************************)
\* the step is a read of input_slots or of output_slots
SlotsRead == last'.op \in {"data_table_inputs", "data_table_outputs"}

\* the read ran no discovery and returned the list the handle holds
CachedRead ==
    /\ ~last'.discovered
    /\ last'.exc = "none"
    /\ Handle' = Handle
    /\ last'.val = IF last'.op = "data_table_inputs"
                   THEN data_table_inputs ELSE data_table_outputs

\* C9 as claimed: on an Unopened handle of either class a read of
\* input_slots or of output_slots runs discovery, which unless it raises
\* leaves the handle Discovered; on a Discovered handle a read returns the
\* cached list without running discovery.
C9_ReadsDiscoverOnce ==
    [][SlotsRead =>
        /\ Unopened(Handle)
            => last'.discovered /\ (last'.exc = "none" => Discovered(Handle)')
        /\ Discovered(Handle) => CachedRead]_vars

\* C9 as amended: on an Unopened handle a read of input_slots (either
\* class) or of output_slots (LocalWorkflow) runs discovery and, when
\* discovery raises nothing, leaves the handle Discovered; a read of
\* output_slots on a RemoteWorkflow never runs discovery and returns the
\* list as it is; on a Discovered handle a read returns the cached list
\* without running discovery.
C9_ReadsDiscoverOnceExceptRemoteOutputs ==
    [][SlotsRead =>
        /\ Unopened(Handle) /\ (last'.op = "data_table_inputs" \/ cls = "Local")
            => last'.discovered /\ (last'.exc = "none" => Discovered(Handle)')
        /\ cls = "Remote" /\ last'.op = "data_table_outputs" => CachedRead
        /\ Discovered(Handle) => CachedRead]_vars

C9_Witness ==
    /\ last.op = "data_table_outputs"
    /\ cls = "Local"
    /\ last.unopened
    /\ last.discovered
    /\ last.exc = "none"
    /\ Discovered(Handle)
    /\ Len(data_table_outputs.items) = MaxOutputs

(***************************************************************************)
(* C10                                                                     *)
(***************************************************************************)
InputLengthsAgree ==
    /\ Len(data_table_inputs.items) = Len(service_table_input_nodes.items)
    /\ cls = "Local" => Len(data_table_inputs.items) = Len(input_ids.items)

\* C10 as claimed: on a Discovered handle of either class input_slots is
\* as long as the discovered input nodes (locally also the input ids) and
\* output_slots as long as the workflow has output nodes, and no operation
\* of the handle changes either length.
C10_LengthsFixed ==
    /\ [](Discovered(Handle) =>
            /\ InputLengthsAgree
            /\ Len(data_table_outputs.items) = wfdef.n_outputs)
    /\ [][Discovered(Handle) =>
            /\ Len(data_table_inputs'.items) = Len(data_table_inputs.items)
            /\ Len(data_table_outputs'.items) = Len(data_table_outputs.items)]_vars

\* C10 as amended: on a Discovered handle of either class input_slots is
\* as long as the discovered input nodes (locally also the input ids) and
\* no operation changes that length; on a LocalWorkflow output_slots is as
\* long as the workflow has output nodes and no operation changes that
\* length; on a RemoteWorkflow output_slots starts empty and only execute()
\* changes it.
C10_LengthsFixedButRemoteOutputs ==
    /\ [](Discovered(Handle) =>
            /\ InputLengthsAgree
            /\ (cls = "Local" => Len(data_table_outputs.items) = wfdef.n_outputs))
    /\ []((cls = "Remote" /\ last.op = "__init__") => data_table_outputs.items = <<>>)
    /\ [][Discovered(Handle) =>
            /\ Len(data_table_inputs'.items) = Len(data_table_inputs.items)
            /\ (cls = "Local" =>
                    Len(data_table_outputs'.items) = Len(data_table_outputs.items))]_vars
    /\ [][(cls = "Remote" /\ last'.op # "execute") =>
            data_table_outputs' = data_table_outputs]_vars

C10_Witness ==
    /\ Executed
    /\ cls = "Local"
    /\ last.exc = "ChildProcessError"
    /\ Discovered(Handle)
    /\ Len(data_table_inputs.items) = MaxInputs
    /\ Len(data_table_outputs.items) = MaxOutputs

(***************************************************************************)
(* C11                                                                     *)
(***************************************************************************)
\* the priority table as the claim words it
PriorityTable(descriptor) ==
    IF Contains(descriptor, "float") THEN "double"
    ELSE IF Contains(descriptor, "int64") \/ Contains(descriptor, "long") THEN "long"
    ELSE IF Contains(descriptor, "int") THEN "int"
    ELSE IF Contains(descriptor, "bool") THEN "boolean"
    ELSE "string"

\* C11: for every descriptor string pandas_type_mapper gives what the
\* priority table gives (float, then int64 or long, then int, then bool,
\* else string); the result is always one of the five tags, and a
\* descriptor containing "int64" never maps to int.
C11_PriorityTable ==
    codec.step = "mapped" =>
        /\ codec.enc = PriorityTable(codec.x)
        /\ codec.enc \in {"double", "long", "int", "boolean", "string"}
        /\ Contains(codec.x, "int64") => codec.enc # "int"

C11_Witness ==
    /\ codec.step = "mapped"
    /\ codec.x = "uint64"
    /\ codec.enc = "long"

(***************************************************************************)
(* C12                                                                     *)
(***************************************************************************)
\* the codec has encoded a tabular value
EncodedFrame == codec.step \in {"encoded", "decoded"} /\ HasDtypes(codec.x)

\* C12: the encoding of a tabular value has as many rows as the value and
\* in each row as many cells as the value has columns, and wherever the
\* value holds a missing cell, in a column of any mapped type, table-data
\* holds JSON null at that row and column.
C12_MissingCellsAreNull ==
    EncodedFrame =>
        /\ Len(codec.enc["table-data"]) = Len(codec.x.data)
        /\ \A r \in Rows(codec.x.data) :
            /\ Len(codec.enc["table-data"][r]) = Len(codec.x.columns)
            /\ \A i \in 1..Len(codec.x.columns) :
                IsNa(codec.x.data[r][i]) => codec.enc["table-data"][r][i] = JsonNull

(***************************************************************************)
(* C13                                                                     *)
(***************************************************************************)
\* C13: encoding a value that exposes no column/type metadata (an already
\* encoded dict whatever its cells, a dict lacking table-data, None)
\* returns that same value and raises nothing; only a value that exposes
\* the metadata is re-encoded into a {table-spec, table-data} dict.
C13_NonTabularPassesThrough ==
    codec.step \in {"encoded", "decoded"} =>
        IF HasDtypes(codec.x)
        THEN DOMAIN codec.enc = {"table-spec", "table-data"} /\ codec.enc # codec.x
        ELSE codec.enc = codec.x

C13_Witness ==
    /\ codec.step = "encoded"
    /\ codec.x = OtherTable
    /\ codec.enc = OtherTable

(***************************************************************************)
(* C14                                                                     *)
(***************************************************************************)
\* the engine produced each of its outputs, and one of them lacks
\* table-spec or table-data or has a row that is not as long as table-spec
MalformedOutput ==
    /\ Executed
    /\ last.engine # None
    /\ EngineProduced(last.engine)
    /\ \E k \in 1..Len(EngineOutputs(last.engine)) :
        ~WellFormed(EngineOutputs(last.engine)[k])

\* C14: in both transports and both output modes, an execute() whose
\* engine produced a payload that lacks table-spec or table-data, or has a
\* row whose length differs from the number of table-spec columns, raises
\* a format error (KeyError or ValueError in the code); it never returns
\* normally.
C14_MalformedPayloadRaises ==
    MalformedOutput => last.exc \in {"KeyError", "ValueError"}

(***************************************************************************)
(* C15                                                                     *)
(***************************************************************************)
\* the engine process has ended and its stderr holds the lock keyphrase
EngineReportedLock ==
    call.pc = "exited" /\ Contains(call.engine.stderr, KEYPHRASE_LOCKED)

\* the call ends with the resource-locked error: a ChildProcessError whose
\* message is the keyphrase, not that of the output-missing error
RaisesLocked ==
    /\ last'.exc = "ChildProcessError"
    /\ last'.msg = KEYPHRASE_LOCKED
    /\ last'.msg # "Output from KNIME not found"

\* C15 as claimed: whenever the engine's stderr holds the lock keyphrase,
\* execute() raises the resource-locked error, for every exit code, number
\* of output nodes, presence of output files and capture mode.
C15_LockAlwaysRaisesLocked ==
    [][EngineReportedLock => RaisesLocked]_vars

\* C15 as amended: whenever the engine's stderr holds the lock keyphrase,
\* stderr was captured (live_passthru_stdout_stderr off) and an expected
\* output file is absent, execute() raises the resource-locked error, for
\* every exit code and whichever other output files are present.
C15_CapturedLockWithMissingOutputRaisesLocked ==
    [][/\ EngineReportedLock
       /\ ~call.args.live_passthru_stdout_stderr
       /\ \E k \in 1..Len(call.engine.files) : call.engine.files[k] = ABSENT
       => RaisesLocked]_vars

C15_Witness ==
    /\ LocalRan
    /\ last.exc = "ChildProcessError"
    /\ last.msg = KEYPHRASE_LOCKED
    /\ last.engine.returncode = 0
    /\ ~last.args.live_passthru_stdout_stderr
    /\ \E k \in 1..Len(last.engine.files) : last.engine.files[k] = ABSENT
    /\ \E k \in 1..Len(last.engine.files) : last.engine.files[k] # ABSENT

(***************************************************************************)
(* C16                                                                     *)
(***************************************************************************)
\* this step ran discovery on a local handle whose workflow directory does
\* not exist
DiscoversMissingDefinition == cls = "Local" /\ ~wfdef.exists /\ last'.discovered

\* C16 as claimed: discovery on a local handle whose workflow directory is
\* missing raises the definition-not-found error (FileNotFoundError in the
\* code) and does not leave a Discovered handle.
C16_MissingDefinitionFailsDiscovery ==
    [][DiscoversMissingDefinition /\ last'.op # "execute" =>
        /\ last'.exc = "FileNotFoundError"
        /\ ~Discovered(Handle)']_vars

\* C16 as amended: discovery on a local handle whose workflow directory is
\* missing raises nothing and leaves a Discovered handle with no input and
\* no output slots; the missing directory is reported by execute() alone,
\* as FileNotFoundError (a write into a slot of the empty input list fails
\* as any write past the end of a list does).
C16_MissingDefinitionDiscoversNothing ==
    [][DiscoversMissingDefinition =>
        /\ Discovered(Handle)'
        /\ data_table_inputs'.items = <<>>
        /\ data_table_outputs'.items = <<>>
        /\ last'.op = "execute" => last'.exc = "FileNotFoundError"
        /\ last'.op \notin {"execute", "setitem"} => last'.exc = "none"]_vars

C16_Witness ==
    /\ cls = "Local"
    /\ ~wfdef.exists
    /\ last.op = "__enter__"
    /\ last.discovered
    /\ last.exc = "none"
    /\ Discovered(Handle)
    /\ data_table_inputs.items = <<>>

(***************************************************************************)
(* C17                                                                     *)
(***************************************************************************)
\* output_slots as the caller reads them from handle h
OutputSlots(h) == data_table_outputs_getter("Local", h, wfdef, None).val

\* C17: on a local handle whose workflow path does not exist, the
\* constructor, __enter__ and __exit__ raise nothing; execute() raises
\* FileNotFoundError without starting the engine process and leaves
\* output_slots as the caller reads them unchanged.
C17_MissingWorkflowFailsInExecuteOnly ==
    /\ [](cls = "Local" /\ ~wfdef.exists /\ last.op = "__init__" => last.exc = "none")
    /\ [][cls = "Local" /\ ~wfdef.exists =>
            /\ last'.op \in {"__enter__", "__exit__"} => last'.exc = "none"
            /\ last'.op = "execute" =>
                /\ last'.exc = "FileNotFoundError"
                /\ ~last'.invoked
                /\ call'.pc = "idle"
                /\ OutputSlots(Handle)' = OutputSlots(Handle)]_vars

C17_Witness ==
    /\ cls = "Local"
    /\ ~wfdef.exists
    /\ Executed
    /\ ~last.unopened
    /\ last.exc = "FileNotFoundError"
    /\ ~last.invoked
    /\ last.engine = None

(***************************************************************************)
(* C18                                                                     *)
(***************************************************************************)
\* the service input and output nodes of the workflow on disk
ServiceNodes ==
    {k \in 1..Len(wfdef.dirs) : ServiceTableKind(wfdef.dirs[k].lines) # "neither"}

\* this step ran discovery on a local workflow whose workflow.knime has no
\* nodes config
DiscoversWithoutNodesConfig ==
    cls = "Local" /\ wfdef.exists /\ ~wfdef.has_nodes_config /\ last'.discovered

\* C18 as claimed: discovery on a local workflow whose workflow.knime has
\* no nodes config raises IndexError, whether the workflow has zero, one
\* or several service nodes.
C18_NoNodesConfigRaises ==
    [][DiscoversWithoutNodesConfig => last'.exc = "IndexError"]_vars

\* C18 as amended: discovery on a local workflow whose workflow.knime has
\* no nodes config raises IndexError when the workflow has one or several
\* service nodes, and the handle is not Discovered; with no service node
\* the registry is not read and discovery leaves a Discovered handle
\* without slots (only a write past the end of the empty input list then
\* raises an IndexError, that of the list).
C18_NoNodesConfigRaisesWithServiceNodes ==
    [][DiscoversWithoutNodesConfig =>
        IF ServiceNodes # {}
        THEN last'.exc = "IndexError" /\ ~Discovered(Handle)'
        ELSE /\ last'.op # "setitem" => last'.exc # "IndexError"
             /\ Discovered(Handle)'
             /\ data_table_inputs'.items = <<>>
             /\ data_table_outputs'.items = <<>>]_vars

C18_Witness ==
    /\ cls = "Local"
    /\ ~wfdef.has_nodes_config
    /\ last.op = "__enter__"
    /\ last.exc = "IndexError"
    /\ Len(service_table_input_nodes.items) = MaxInputs
    /\ ~Discovered(Handle)

(***************************************************************************)
(* C19                                                                     *)
(***************************************************************************)
\* the call that ends in this step logged the captured stdout and then
\* the captured stderr at error level
LogsCapturedOutput ==
    \E i, j \in 1..Len(last'.logs) :
        /\ i < j
        /\ last'.logs[i] = Log("error", "captured stdout")
        /\ last'.logs[j] = Log("error", "captured stderr")

\* a local execute() ends in this step with a fatal failure of the engine
\* run: an output file is missing, or the workflow is locked
LocalRunFails == call.pc = "exited" /\ last'.exc = "ChildProcessError"

\* a remote execute() ends in this step by raising
RemoteRunFails == call.pc = "answered" /\ last'.exc # "none"

\* C19 as claimed: each local fatal failure (output file missing, workflow
\* locked) logs the captured stdout and stderr at error level before it
\* raises, and each remote fatal failure carries the response body.
C19_FatalFailuresSurfaceEngineOutput ==
    [][/\ LocalRunFails => LogsCapturedOutput
       /\ RemoteRunFails => Contains(last'.msg, call.engine.text)]_vars

\* C19 as amended: a local execute() that fails because an output file is
\* missing, the workflow not being reported locked, logs the captured
\* stdout and stderr at error level before it raises; one that fails
\* because the workflow is locked raises with the lock keyphrase as its
\* message and logs nothing of what was captured; a remote execute()
\* answered with a status other than 200 logs an error and raises with the
\* response body in its message.
C19_MissingOutputAndNon200SurfaceEngineOutput ==
    [][/\ LocalRunFails =>
            IF last'.msg = KEYPHRASE_LOCKED
            THEN \A j \in 1..Len(last'.logs) : last'.logs[j][1] # "error"
            ELSE LogsCapturedOutput
       /\ call.pc = "answered" /\ call.engine.status_code # 200 =>
            /\ last'.exc = "RuntimeError"
            /\ Contains(last'.msg, call.engine.text)
            /\ \E j \in 1..Len(last'.logs) : last'.logs[j][1] = "error"]_vars

C19_Witness ==
    /\ LocalRan
    /\ last.exc = "ChildProcessError"
    /\ last.msg = "Output from KNIME not found"
    /\ last.engine.returncode = 1
    /\ \E j \in 1..Len(last.logs) : last.logs[j] = Log("error", "captured stderr")

(***************************************************************************)
(* C20                                                                     *)
(***************************************************************************)
\* an execute() with DataFrame output disabled has returned normally
RawExecuted ==
    /\ Executed
    /\ last.exc = "none"
    /\ last.engine # None
    /\ ~last.args.output_as_pandas_dataframes

\* C20 as claimed: after a successful execute() with DataFrame output
\* disabled, on a LocalWorkflow and on a RemoteWorkflow alike, output_slots
\* has one slot per declared output, in order, and each holds the payload
\* the engine produced for it in full, table-spec and table-data.
C20_RawOutputsAlike ==
    RawExecuted =>
        /\ Len(data_table_outputs.items) = wfdef.n_outputs
        /\ \A k \in 1..wfdef.n_outputs :
            data_table_outputs.items[k] = EngineOutputs(last.engine)[k]

\* C20 as amended: after a successful execute() with DataFrame output
\* disabled output_slots has one slot per declared output, in order; on a
\* LocalWorkflow each slot holds the payload the engine produced in full,
\* on a RemoteWorkflow only the list that is the payload's table-data.
C20_RawOutputsByTransport ==
    RawExecuted =>
        /\ Len(data_table_outputs.items) = wfdef.n_outputs
        /\ \A k \in 1..wfdef.n_outputs :
            IF cls = "Local"
            THEN data_table_outputs.items[k] = EngineOutputs(last.engine)[k]
            ELSE /\ "table-data" \in DOMAIN EngineOutputs(last.engine)[k]
                 /\ data_table_outputs.items[k] =
                        PyList(EngineOutputs(last.engine)[k]["table-data"])

C20_Witness ==
    /\ RawExecuted
    /\ cls = "Remote"
    /\ Len(data_table_outputs.items) = MaxOutputs
    /\ data_table_outputs.items[1] = PyList(GoodTable["table-data"])
    /\ data_table_outputs.items[2] = PyList(OtherTable["table-data"])

(***************************************************************************)
(* C25                                                                     *)
(***************************************************************************)
\* a remote execute() has ended on a 200 answer without "outputValues", as
\* the server gives for a workflow with no Container Output (Table) node
AnsweredWithoutOutputValues ==
    /\ Executed
    /\ cls = "Remote"
    /\ last.engine # None
    /\ last.engine.status_code = 200
    /\ ~HasOutputValues(last.engine)

\* C25: when the server answers a remote execution with status 200 and a
\* body without the "outputValues" key, execute() completes without raising
\* and leaves output_slots empty, whether output_as_pandas_dataframes is
\* True or False.
C25_NoOutputValuesLeavesNoOutputs ==
    AnsweredWithoutOutputValues =>
        /\ last.exc = "none"
        /\ data_table_outputs.items = <<>>

(***************************************************************************)
(* C24                                                                     *)
(***************************************************************************)
\* the status of the response a step of a RemoteWorkflow receives: the
\* answer to the POST when execute() resumes, else the answer to the image
\* request or to the openapi request, which is a 404 exactly when the
\* operation raises LookupError
ReceivedStatus ==
    IF call.pc = "answered" THEN call.engine.status_code
    ELSE IF last'.exc = "LookupError" THEN 404
    ELSE 200

\* the step receives a response from the server
ReceivesResponse ==
    \/ call.pc = "answered"
    \/ call.pc = "idle" /\ (last'.op = "_repr_svg_" \/ last'.discovered)

EntriesOf(k) ==
    {e \in DOMAIN codec.x.node_configs :
        \E j \in DOMAIN codec.x.node_configs[e] :
            /\ codec.x.node_configs[e][j].key = "node_settings_file"
            /\ codec.x.node_configs[e][j].value = codec.x.dirs[k].dirname \o "/settings.xml"}

\* the integer ids that the e-th registry entry declares
DeclaredIds(e) ==
    {n \in 0..(2 + MaxInputs + MaxOutputs) :
        \E j \in DOMAIN codec.x.node_configs[e] :
            /\ codec.x.node_configs[e][j].key = "id"
            /\ codec.x.node_configs[e][j].value = ToString(n)}

\* within the e-th entry the id element comes before the settings-file
\* element
IdComesFirst(e) ==
    \E i, j \in DOMAIN codec.x.node_configs[e] :
        /\ i < j
        /\ codec.x.node_configs[e][i].key = "id"
        /\ codec.x.node_configs[e][j].key = "node_settings_file"

\* the ids of the nodes are pairwise distinct
DistinctIds ==
    \A k1, k2 \in DOMAIN codec.dec : k1 # k2 => codec.dec[k1] # codec.dec[k2]

\* C21 as claimed: for a node that has a registry entry, find_node_id
\* returns the id that entry declares, whatever the entry's position and
\* whatever the order of its id and settings-file elements; distinct nodes
\* get distinct ids.
C21_FindsDeclaredId ==
    codec.step = "located" =>
        /\ \A k \in DOMAIN codec.dec : \A e \in EntriesOf(k) :
            /\ codec.dec[k].exc = "none"
            /\ codec.dec[k].val # None
            /\ codec.dec[k].val.n \in DeclaredIds(e)
        /\ DistinctIds

\* C21 as amended: for a node that has a registry entry in which the id
\* element comes before the settings-file element, find_node_id returns the
\* id that entry declares, whatever the entry's position and whatever the
\* order of the elements of the other entries, and such nodes get distinct
\* ids; for no node does it return an id declared by another entry.
C21_FindsDeclaredIdWhenIdComesFirst ==
    codec.step = "located" =>
        \A k \in DOMAIN codec.dec : \A e \in EntriesOf(k) :
            /\ IdComesFirst(e) =>
                /\ codec.dec[k].exc = "none"
                /\ codec.dec[k].val # None
                /\ codec.dec[k].val.n \in DeclaredIds(e)
                /\ \A k2 \in DOMAIN codec.dec : k2 # k => codec.dec[k2] # codec.dec[k]
            /\ (codec.dec[k].exc = "none" /\ codec.dec[k].val # None) =>
                codec.dec[k].val.n \in DeclaredIds(e)

\* the last entry of the registry is found behind entries whose
\* settings-file element comes first
C21_Witness ==
    /\ codec.step = "located"
    /\ \E k \in DOMAIN codec.dec :
        /\ EntriesOf(k) = {Len(codec.x.node_configs)}
        /\ IdComesFirst(Len(codec.x.node_configs))
        /\ \A e \in DOMAIN codec.x.node_configs :
            e # Len(codec.x.node_configs) => ~IdComesFirst(e)
        /\ codec.dec[k].exc = "none"
        /\ codec.dec[k].val # None
        /\ codec.dec[k].val.n \in DeclaredIds(Len(codec.x.node_configs))

(***************************************************************************)
(* C22                                                                     *)
(***************************************************************************)
\* some line of the document references the factory marker
References(lines, marker) == \E i \in DOMAIN lines : Contains(lines[i], marker)

\* how often the dirname of the k-th node directory is in the list
TimesIn(list, k) ==
    Cardinality({i \in DOMAIN list : list[i] = codec.x.dirs[k].dirname})

\* the first line of the document that references either marker, or 0
FirstMarkerLine(lines) ==
    IF References(lines, INPUT_FACTORY) \/ References(lines, OUTPUT_FACTORY)
    THEN CHOOSE i \in DOMAIN lines :
            /\ Contains(lines[i], INPUT_FACTORY) \/ Contains(lines[i], OUTPUT_FACTORY)
            /\ \A j \in DOMAIN lines :
                Contains(lines[j], INPUT_FACTORY) \/ Contains(lines[j], OUTPUT_FACTORY)
                    => i <= j
    ELSE 0

\* the classification reads the workflow definition and leaves it as it is
DefinitionUnchanged == [][codec'.x = codec.x /\ wfdef' = wfdef]_vars

\* C22 as claimed: a directory name is exactly once in the input list if
\* its settings document references the Input factory marker, exactly once
\* in the output list if it references the Output factory marker, and in
\* neither list if it references neither; no name is in both lists or twice
\* in one; the workflow definition is not changed.
C22_ClassifiedByReference ==
    /\ [](codec.step = "classified" =>
        \A k \in DOMAIN codec.x.dirs :
            /\ References(codec.x.dirs[k].lines, INPUT_FACTORY) => TimesIn(codec.enc[1], k) = 1
            /\ References(codec.x.dirs[k].lines, OUTPUT_FACTORY) => TimesIn(codec.enc[2], k) = 1
            /\ (/\ ~References(codec.x.dirs[k].lines, INPUT_FACTORY)
                /\ ~References(codec.x.dirs[k].lines, OUTPUT_FACTORY))
                    => TimesIn(codec.enc[1], k) + TimesIn(codec.enc[2], k) = 0
            /\ TimesIn(codec.enc[1], k) + TimesIn(codec.enc[2], k) <= 1)
    /\ DefinitionUnchanged

\* C22 as amended: a directory name is exactly once in the input list, and
\* not in the output list, if the first line of its settings document that
\* references either marker references the Input factory marker; exactly
\* once in the output list, and not in the input list, if that line
\* references the Output factory marker only; in neither list if no line
\* references either; the workflow definition is not changed.
C22_ClassifiedByFirstReference ==
    /\ [](codec.step = "classified" =>
        \A k \in DOMAIN codec.x.dirs :
            LET lines == codec.x.dirs[k].lines
                first == FirstMarkerLine(lines)
            IN  IF first = 0
                THEN TimesIn(codec.enc[1], k) = 0 /\ TimesIn(codec.enc[2], k) = 0
                ELSE IF Contains(lines[first], INPUT_FACTORY)
                THEN TimesIn(codec.enc[1], k) = 1 /\ TimesIn(codec.enc[2], k) = 0
                ELSE TimesIn(codec.enc[1], k) = 0 /\ TimesIn(codec.enc[2], k) = 1)
    /\ DefinitionUnchanged

\* a document that references the Output factory and then, on a later
\* line, the Input factory is in the output list only, next to a document
\* whose single line references both and is in the input list only
C22_Witness ==
    /\ codec.step = "classified"
    /\ codec.x.dirs[1].lines = <<OUTPUT_FACTORY, INPUT_FACTORY>>
    /\ codec.x.dirs[2].lines = <<OUTPUT_FACTORY \o " " \o INPUT_FACTORY>>
    /\ codec.enc = << <<codec.x.dirs[2].dirname>>, <<codec.x.dirs[1].dirname>> >>

(***************************************************************************)
(* C23                                                                     *)
(***************************************************************************)
\* the execute() calls that are inside their with statement
InsideWith == {c \in DOMAIN codec.calls : codec.calls[c].pc \notin {"idle", "ended"}}

\* C23: the staging files of a local execute() are private to the call:
\* each lives in a temporary directory made for that call alone, so no
\* staging file is written or read by two interleaved calls, and a call's
\* directory and its files are gone once the call has ended, by returning
\* or by raising.
C23_StagingIsPrivate ==
    /\ [](\A c1, c2 \in InsideWith :
            c1 # c2 => codec.calls[c1].temp_dir # codec.calls[c2].temp_dir)
    /\ [](\A p \in DOMAIN codec.files : \E c \in InsideWith :
            /\ codec.files[p] = {c}
            /\ p[1] = codec.calls[c].temp_dir)
    /\ [](codec.dirs = {codec.calls[c].temp_dir : c \in InsideWith})
    /\ [][\A c \in DOMAIN codec.calls :
            (codec.calls[c].pc = "leaving" /\ codec'.calls[c].pc = "ended") =>
                /\ codec.calls[c].exc \in {"none", "TypeError", "ChildProcessError"}
                /\ codec.calls[c].temp_dir \notin codec'.dirs
                /\ \A p \in DOMAIN codec'.files : p[1] # codec.calls[c].temp_dir]_vars

\* both calls are reading their outputs, each from its own file of the
\* same name
C23_Witness ==
    /\ codec.step = "staging"
    /\ \A c \in DOMAIN codec.calls : codec.calls[c].pc = "reading" /\ codec.calls[c].read > 0
    /\ \E p1, p2 \in DOMAIN codec.files :
        /\ p1[1] # p2[1]
        /\ p1[2] = p2[2]
        /\ codec.files[p1] # codec.files[p2]

====
